---- MODULE Spec2Model ----
(***************************************************************************)
(* A model of the QtHEP helper classes.                                     *)
(*                                                                          *)
(*   Spec      QOrderedEditableList (PyQt5OrderedEditableList.py): the      *)
(*             seven button handlers, enableButtons, and the list widget    *)
(*             they drive.                                                  *)
(*   SpecConn  WidgetDataConnectors (PyQt5WidgetDataConnectors.py): the     *)
(*             connector kinds, their bind-time checks and the bulk         *)
(*             transfers of the registry.                                   *)
(*   SpecBind  one connector of any kind, its transfers and its control's   *)
(*             user.                                                        *)
(*   SpecValid the field validators (PyQt5Validators.py): one validator on  *)
(*             one control.                                                 *)
(*   SpecRecent QRecentFiles (PyQt5RecentFiles.py): the windows of one      *)
(*             application and the setting they share.                      *)
(***************************************************************************)
EXTENDS Integers, Sequences, FiniteSets, TLC

(***************************************************************************)
(* Part 1.  QOrderedEditableList                                            *)
(***************************************************************************)

\* Bound on the number of items the list widget holds in the model.
MaxItems == 3

\* Item identities (one per QListWidgetItem object) and the addresses of the
\* Python objects attached to items as data(Qt.UserRole).
Ids == 1..MaxItems
Addrs == 1..MaxItems

\* "No object": currentItem() is None, data(Qt.UserRole) is None, item(-1).
None == 0

\* newItemDefaultString, and the other item text the model uses.
newItemDefaultString == "new"
Texts == {newItemDefaultString, "x"}

\* The values an attached data object can hold.
DataVals == {0, 1}

\* The module only imports QListWidgetItem from PyQt5.QtWidgets; the name
\* QMessageBox that __itemDelete uses is not bound.
QMessageBoxImported == FALSE

VARIABLES
    items,       \* the QListWidget rows: sequence of [id, text, ref]
    heap,        \* the data objects: address -> value
    currentRow,  \* QListWidget.currentRow(), 0-based, -1 for none
    selected,    \* id of the selected item (single selection), None for none
    editing,     \* id of the item with an open editor, None for none
    buttons,     \* enabled state of copy/delete/top/up/down/bottom
    lastOp,      \* the operation that produced this state
    outcome,     \* how the last handler ended
    log,         \* what the last handler did, in order
    pre,         \* the list widget as it was when the last handler started
    onNewListItem \* whether the parent supplied the onNewListItem callback

listVars == <<items, heap, currentRow, selected, editing, buttons, lastOp,
              outcome, log, pre, onNewListItem>>

\* ---- sequences with 0-based rows, as QListWidget addresses them ----

RowItem(its, row) == its[row + 1]

RemoveAt(its, row) ==
    [i \in 1..(Len(its) - 1) |-> IF i <= row THEN its[i] ELSE its[i + 1]]

\* QListModel::insert clamps the row into 0..count.
ClampRow(its, row) ==
    IF row < 0 THEN 0 ELSE IF row > Len(its) THEN Len(its) ELSE row

InsertAt(its, row, it) ==
    LET r == ClampRow(its, row)
    IN  [i \in 1..(Len(its) + 1) |->
            IF i <= r THEN its[i] ELSE IF i = r + 1 THEN it ELSE its[i - 1]]

RowOf(its, id) ==
    IF \E i \in 1..Len(its) : its[i].id = id
    THEN (CHOOSE i \in 1..Len(its) : its[i].id = id) - 1
    ELSE -1

IdSeq(its) == [i \in 1..Len(its) |-> its[i].id]

UsedIds(its) == {its[i].id : i \in 1..Len(its)}
UsedAddrs(its) == {its[i].ref : i \in 1..Len(its)} \ {None}

FreshId(its) == CHOOSE i \in Ids \ UsedIds(its) :
                    \A j \in Ids \ UsedIds(its) : i <= j
FreshAddr(its) == CHOOSE a \in Addrs \ UsedAddrs(its) :
                    \A b \in Addrs \ UsedAddrs(its) : a <= b

\* Objects no item refers to any more are garbage; their slot reads 0.
Collect(hp, its) == [a \in Addrs |-> IF a \in UsedAddrs(its) THEN hp[a] ELSE 0]

\* ---- the handler state: the widget, the buttons and the handler's trace ----

State(its, hp, cur, sel, ed, btn) ==
    [items |-> its, heap |-> hp, cur |-> cur, sel |-> sel, editing |-> ed,
     buttons |-> btn, log |-> <<>>, outcome |-> "ok"]

Here == State(items, heap, currentRow, selected, editing, buttons)

Snapshot(s) == [items |-> s.items, heap |-> s.heap, cur |-> s.cur, sel |-> s.sel]

\* What pre holds when the last step was not a button handler.
NoSnapshot == [items |-> <<>>, heap |-> [a \in Addrs |-> 0], cur |-> -1, sel |-> None]

Logged(s, ev) == [s EXCEPT !.log = Append(@, ev)]

Raise(s, exc) == [s EXCEPT !.outcome = exc]

\* currentItem(): the item at the current row, or None.
currentItem(s) ==
    IF s.cur >= 0 /\ s.cur < Len(s.items) THEN RowItem(s.items, s.cur).id ELSE None

\* deleteItemButton.setEnabled(count > 1)
DeleteEnabledAnyCount(count) == count > 0

DeleteEnabled(count) == count > 1

ButtonsFor(count, row) ==
    IF count = 0 \/ row < 0
    THEN [copy |-> FALSE, delete |-> FALSE, top |-> FALSE, up |-> FALSE,
          down |-> FALSE, bottom |-> FALSE]
    ELSE [copy |-> TRUE, delete |-> DeleteEnabled(count),
          top |-> row > 0, up |-> row > 0,
          down |-> row + 1 < count, bottom |-> row + 1 < count]

enableButtons(s) ==
    Logged([s EXCEPT !.buttons = ButtonsFor(Len(s.items), s.cur)], "buttons")

\* itemSelectionChanged is connected to enableButtons; the slot runs
\* synchronously when the selection changes.
itemSelectionChangedUnwired(s, before) == s

itemSelectionChanged(s, before) ==
    IF s.sel # before THEN enableButtons(s) ELSE s

\* QListWidget.closePersistentEditor(item): closes the editor of that item.
closePersistentEditor(s, id) ==
    IF id # None /\ s.editing = id THEN [s EXCEPT !.editing = None] ELSE s

closeCurrentEditor(s) == closePersistentEditor(s, currentItem(s))

\* QListWidget.takeItem(row).  Removing the current row makes the view pick a
\* new current item (the next row, else the previous one) and select it while
\* the row is still in the model, so the slot sees the old count.
takeItem(s, row) ==
    IF row < 0 \/ row >= Len(s.items) THEN s
    ELSE
      LET n == Len(s.items)
          gone == RowItem(s.items, row).id
          rest == RemoveAt(s.items, row)
          ed == IF s.editing = gone THEN None ELSE s.editing
      IN  IF row = s.cur
          THEN LET nxt == IF row + 1 < n THEN row + 1 ELSE row - 1
                   nsel == IF nxt >= 0 THEN RowItem(s.items, nxt).id ELSE None
                   mid == itemSelectionChanged(
                              [s EXCEPT !.cur = nxt, !.sel = nsel,
                                        !.editing = ed], s.sel)
               IN  Logged([mid EXCEPT !.items = rest,
                                      !.cur = RowOf(rest, nsel)], "mutate")
          ELSE Logged([s EXCEPT !.items = rest,
                                !.cur = IF row < s.cur THEN s.cur - 1 ELSE s.cur,
                                !.sel = IF s.sel = gone THEN None ELSE s.sel,
                                !.editing = ed], "mutate")

\* insertItem(row, item) / addItem(item): no selection change.
insertItem(s, row, it) ==
    LET r == ClampRow(s.items, row)
    IN  Logged([s EXCEPT !.items = InsertAt(s.items, row, it),
                         !.cur = IF s.cur >= r THEN s.cur + 1 ELSE s.cur],
               "mutate")

addItem(s, it) == insertItem(s, Len(s.items), it)

\* item.setSelected(True) in single-selection mode.
setSelected(s, id) ==
    itemSelectionChanged(Logged([s EXCEPT !.sel = id], "select"), s.sel)

\* setCurrentItem(item): the item becomes current and selected.
setCurrentItem(s, id) ==
    itemSelectionChanged(
        Logged([s EXCEPT !.cur = RowOf(s.items, id), !.sel = id], "select"),
        s.sel)

\* editItem(item): opens the item's editor.
editItem(s, id) == [s EXCEPT !.editing = id]

\* listChanged.emit()
emitListChangedTwice(s) == Logged(Logged(s, "emit"), "emit")

emitListChanged(s) == Logged(s, "emit")


\* ---- the button handlers ----

\* copy.deepcopy(currentItemData): a new object with the same value.
shallowcopy(hp, its, ref) == [ref |-> ref, heap |-> hp]

deepcopy(hp, its, ref) ==
    [ref |-> FreshAddr(its), heap |-> [hp EXCEPT ![FreshAddr(its)] = hp[ref]]]

\* The tail shared by __itemNew and __itemCopy once the item is built.
SelectAndEdit(s, id) ==
    emitListChanged(enableButtons(editItem(setCurrentItem(setSelected(s, id), id), id)))

itemCopy(s) ==
    LET s1 == closeCurrentEditor(s)
        cur == currentItem(s1)
    IN  IF cur = None THEN Raise(s1, "AttributeError")
        ELSE
          LET src == RowItem(s1.items, s1.cur)
              id == FreshId(s1.items)
              s2 == addItem(s1, [id |-> id, text |-> src.text, ref |-> None])
              cp == deepcopy(s2.heap, s2.items, src.ref)
              s3 == IF src.ref # None
                    THEN [s2 EXCEPT !.items[Len(s2.items)].ref = cp.ref,
                                    !.heap = cp.heap]
                    ELSE s2
          IN  SelectAndEdit(s3, id)

\* if (self.__listWidget.count() == 1)
DeleteNeverRefused(count) == FALSE

DeleteRefused(count) == count = 1

\* The row __itemDelete selects after the removal.
RowAfterDeleteUnclamped(row, count) == row

RowAfterDelete(row, count) ==
    IF count = 1 THEN 0 ELSE IF row = count THEN row - 1 ELSE row

itemDelete(s) ==
    LET s1 == closeCurrentEditor(s)
    IN  IF DeleteRefused(Len(s1.items))
        THEN Raise(s1, IF QMessageBoxImported THEN "ErrorDialog" ELSE "NameError")
        ELSE
          LET row == s1.cur
              s2 == closePersistentEditor(s1, currentItem(s1))
              t == takeItem(s2, row)
              s3 == [t EXCEPT !.heap = Collect(t.heap, t.items)]
              count == Len(s3.items)
              r == RowAfterDelete(row, count)
          IN  IF r < 0 \/ r >= count THEN Raise(s3, "AttributeError")
              ELSE LET id == RowItem(s3.items, r).id
                   IN  emitListChanged(enableButtons(
                           setCurrentItem(setSelected(s3, id), id)))

\* The four moves differ only in the row the taken item is put back at.
\* (count is the number of items left once the moved item is taken out)
UpRowStays(row, count) == row

BottomRow(row, count) == count
DownRow(row, count) == row + 1
TopRow(row, count) == 0
UpRow(row, count) == row - 1

itemMove(s, target) ==
    LET s1 == closeCurrentEditor(s)
        row == s1.cur
        s2 == closePersistentEditor(s1, currentItem(s1))
    IN  IF row < 0 \/ row >= Len(s2.items)
        THEN Raise(setCurrentItem(s2, None), "AttributeError")
        ELSE LET it == RowItem(s2.items, row)
                 s3 == takeItem(s2, row)
                 s4 == insertItem(s3, target, it)
             IN  emitListChanged(enableButtons(
                     setSelected(setCurrentItem(s4, it.id), it.id)))

itemMoveBottom(s) == itemMove(s, BottomRow(s.cur, Len(s.items) - 1))
itemMoveDown(s) == itemMove(s, DownRow(s.cur, Len(s.items) - 1))
itemMoveTop(s) == itemMove(s, TopRow(s.cur, Len(s.items) - 1))
itemMoveUp(s) == itemMove(s, UpRow(s.cur, Len(s.items) - 1))

\* The parent's onNewListItem(item, name): attaches a new data object.
callOnNewListItem(s) ==
    LET a == FreshAddr(s.items)
    IN  Logged([s EXCEPT !.items[Len(s.items)].ref = a, !.heap[a] = 0], "callback")

itemNewCallbackLast(s) ==
    LET s1 == closeCurrentEditor(s)
        id == FreshId(s1.items)
        s2 == addItem(s1, [id |-> id, text |-> newItemDefaultString, ref |-> None])
        s3 == SelectAndEdit(s2, id)
    IN  IF onNewListItem THEN callOnNewListItem(s3) ELSE s3

itemNew(s) ==
    LET s1 == closeCurrentEditor(s)
        id == FreshId(s1.items)
        s2 == addItem(s1, [id |-> id, text |-> newItemDefaultString, ref |-> None])
        s3 == IF onNewListItem THEN callOnNewListItem(s2) ELSE s2
    IN  SelectAndEdit(s3, id)

\* ---- the state machine ----

Handlers == {"New", "Copy", "Delete", "MoveTop", "MoveUp", "MoveDown", "MoveBottom"}

\* The state a step leaves behind, and what a handler started from.
Becomes(op, s) ==
    /\ items' = s.items
    /\ heap' = s.heap
    /\ currentRow' = s.cur
    /\ selected' = s.sel
    /\ editing' = s.editing
    /\ buttons' = s.buttons
    /\ outcome' = s.outcome
    /\ log' = s.log
    /\ lastOp' = op
    /\ pre' = IF op \in Handlers THEN Snapshot(Here) ELSE NoSnapshot
    /\ UNCHANGED onNewListItem

\* The parent attaches a data object to every item exactly when it supplies
\* the onNewListItem callback that does the same for new items.
InitItems(d) ==
    {[i \in 1..n |-> [id |-> i, text |-> "x", ref |-> IF d THEN i ELSE None]] :
        n \in 0..2}

\* __init__: wires the signals and calls enableButtons() on the list widget
\* the parent hands over.
ListInit ==
    /\ onNewListItem \in BOOLEAN
    /\ items \in InitItems(onNewListItem)
    /\ heap = [a \in Addrs |-> 0]
    /\ currentRow \in -1..(Len(items) - 1)
    /\ selected = IF currentRow >= 0 THEN RowItem(items, currentRow).id ELSE None
    /\ editing = None
    /\ buttons = ButtonsFor(Len(items), currentRow)
    /\ lastOp = "init"
    /\ outcome = "ok"
    /\ log = <<"buttons">>
    /\ pre = NoSnapshot

ClickNew == Len(items) < MaxItems /\ Becomes("New", itemNew(Here))
ClickCopy == buttons.copy /\ Len(items) < MaxItems /\ Becomes("Copy", itemCopy(Here))
ClickDelete == buttons.delete /\ Becomes("Delete", itemDelete(Here))
ClickTop == buttons.top /\ Becomes("MoveTop", itemMoveTop(Here))
ClickUp == buttons.up /\ Becomes("MoveUp", itemMoveUp(Here))
ClickDown == buttons.down /\ Becomes("MoveDown", itemMoveDown(Here))
ClickBottom == buttons.bottom /\ Becomes("MoveBottom", itemMoveBottom(Here))

\* The user clicks a row: it becomes current and selected, an open editor
\* commits, and itemSelectionChanged fires when the selection changed.
SelectRow ==
    \E r \in 0..(Len(items) - 1) :
        LET s == [Here EXCEPT !.editing = None]
            id == RowItem(items, r).id
        IN  Becomes(IF id # selected THEN "select" ELSE "click",
                    setCurrentItem(s, id))

\* The user finishes editing the item whose editor is open.
EditText ==
    /\ editing # None
    /\ RowOf(items, editing) >= 0
    /\ \E t \in Texts :
        Becomes("edit", [Here EXCEPT !.items[RowOf(items, editing) + 1].text = t,
                                     !.editing = None])

\* The application changes a data object attached to an item.
MutateData ==
    \E a \in UsedAddrs(items), v \in DataVals :
        /\ heap[a] # v
        /\ Becomes("mutate", [Here EXCEPT !.heap[a] = v])

\* The parent fills or prunes the list widget directly (addItem, takeItem of
\* a row other than the current one): no selection change, so no slot runs.
ExternalAdd ==
    /\ Len(items) < MaxItems
    /\ LET a == addItem(Here, [id |-> FreshId(items), text |-> "x", ref |-> None])
           b == IF onNewListItem THEN callOnNewListItem(a) ELSE a
       IN  Becomes("external", [b EXCEPT !.log = <<>>])

ExternalTake ==
    \E r \in 0..(Len(items) - 1) :
        /\ r # currentRow
        /\ LET t == takeItem(Here, r)
           IN  Becomes("external", [t EXCEPT !.heap = Collect(t.heap, t.items),
                                             !.log = <<>>])

ListNext ==
    \/ ClickNew
    \/ ClickCopy
    \/ ClickDelete
    \/ ClickTop
    \/ ClickUp
    \/ ClickDown
    \/ ClickBottom
    \/ SelectRow
    \/ EditText
    \/ MutateData
    \/ ExternalAdd
    \/ ExternalTake


(***************************************************************************)
(* Part 2.  WidgetDataConnectors                                            *)
(***************************************************************************)

\* Bound on the number of connectors the registry holds in the model.
MaxConn == 2

\* One key per bound (attribute, control) pair; key 0 is an attribute of the
\* data object that no connector is bound to.
Keys == 0..MaxConn

Kinds == {"check", "combo", "line", "plain", "radio", "spin", "table"}

\* Python values: <<type name, value>>; a str is a sequence of characters.
PyBool(b) == <<"bool", b>>
PyInt(i) == <<"int", i>>
PyStr(s) == <<"str", s>>
PyNone == <<"none", 0>>

TypeOf(x) == x[1]
ValOf(x) == x[2]

CR == "\r"
LF == "\n"

\* isinstance(x, cls): bool is a subclass of int.
IsInstance(x, cls) ==
    \/ TypeOf(x) = cls
    \/ cls = "int" /\ TypeOf(x) = "bool"

\* int(x) for the numeric types.
AsInt(x) == IF TypeOf(x) = "bool" THEN (IF ValOf(x) THEN 1 ELSE 0) ELSE ValOf(x)

\* x == y in Python: numbers compare by value, other types only with
\* their own.
PyEq(x, y) ==
    IF TypeOf(x) \in {"bool", "int"} /\ TypeOf(y) \in {"bool", "int"}
    THEN AsInt(x) = AsInt(y)
    ELSE TypeOf(x) = TypeOf(y) /\ ValOf(x) = ValOf(y)

VARIABLES
    connectors,  \* WidgetDataConnectors.connectors: sequence of [kind, key, flags]
    data,        \* the data object: key -> Python value of the attribute
    widgets,     \* the controls: key -> [kind, w |-> [cfg, val]]
    connOp,      \* the last registry operation: [op, g]
    connOutcome, \* how it ended
    attempt,     \* what the last connect() was given: [kind, t]
    visited,     \* keys the last bulk transfer visited, in order
    pushed       \* the data before the push, while nothing but the push
                 \* and the pull that followed it has happened since

connVars == <<connectors, data, widgets, connOp, connOutcome, attempt,
              visited, pushed>>

NoAttr == PyNone
NoWidget == [kind |-> "none", w |-> [cfg |-> 0, val |-> 0]]

\* ---- the controls ----

\* QCheckBox.setChecked / isChecked
checkBoxSet(w, v) == [w EXCEPT !.val = AsInt(v) # 0]
checkBoxGet(w) == PyBool(w.val)

\* QComboBox.findText(text): the first index holding the text, else -1.
findText(its, txt) ==
    IF \E i \in 1..Len(its) : its[i] = txt
    THEN (CHOOSE i \in 1..Len(its) :
              its[i] = txt /\ \A j \in 1..(i - 1) : its[j] # txt) - 1
    ELSE -1

\* QComboBox.currentText(): the text of the current entry, "" when none.
currentText(w) ==
    IF w.val >= 0 /\ w.val < Len(w.cfg) THEN PyStr(w.cfg[w.val + 1]) ELSE PyStr(<<>>)

\* QLineEdit.setText: the text is cut to maxLength.
lineEditSetText(w, v) ==
    [w EXCEPT !.val = IF Len(ValOf(v)) > w.cfg THEN SubSeq(ValOf(v), 1, w.cfg) ELSE ValOf(v)]

\* QPlainTextEdit.setPlainText / toPlainText: CR LF and CR become block
\* separators, which read back as LF.
RECURSIVE Blocks(_)
Blocks(txt) ==
    IF txt = <<>> THEN <<>>
    ELSE IF txt[1] = CR
         THEN IF Len(txt) > 1 /\ txt[2] = LF
              THEN <<LF>> \o Blocks(SubSeq(txt, 3, Len(txt)))
              ELSE <<LF>> \o Blocks(Tail(txt))
         ELSE <<txt[1]>> \o Blocks(Tail(txt))

plainTextSet(w, v) == [w EXCEPT !.val = Blocks(ValOf(v))]

\* QRadioButton.setChecked(True): with auto-exclusive buttons under one
\* parent the others are unchecked.
radioCheck(w, idx) ==
    [w EXCEPT !.val = [i \in 1..Len(w.val) |->
                          IF i = idx THEN TRUE
                          ELSE IF w.cfg.exclusive THEN FALSE ELSE w.val[i]]]

\* QSpinBox.setValue: the value is bounded by minimum() and maximum().
spinBoxSetValue(w, v) ==
    [w EXCEPT !.val = IF AsInt(v) < w.cfg.min THEN w.cfg.min
                      ELSE IF AsInt(v) > w.cfg.max THEN w.cfg.max
                      ELSE AsInt(v)]

\* ---- the connectors: _transferToWidget ----

checkBoxToWidget(w, dataItem) == checkBoxSet(w, dataItem)

comboBoxToFirst(w, dataItem) == [w EXCEPT !.val = IF Len(w.cfg) > 0 THEN 0 ELSE @]

comboBoxToWidget(w, dataItem) ==
    LET found == findText(w.cfg, ValOf(dataItem))
    IN  IF found = -1
        THEN IF Len(w.cfg) > 0 THEN [w EXCEPT !.val = 0] ELSE w
        ELSE [w EXCEPT !.val = found]

lineEditToWidget(w, dataItem) == lineEditSetText(w, dataItem)

plainTextToWidget(w, dataItem) == plainTextSet(w, dataItem)

\* The first index whose value equals the data item, 0 when there is none.
RadioMatch(w, dataItem) ==
    IF \E i \in 1..Len(w.cfg.values) : PyEq(dataItem, w.cfg.values[i])
    THEN CHOOSE i \in 1..Len(w.cfg.values) :
            /\ PyEq(dataItem, w.cfg.values[i])
            /\ \A j \in 1..(i - 1) : ~PyEq(dataItem, w.cfg.values[j])
    ELSE 0

radioGroupToWidget(w, dataItem) ==
    IF RadioMatch(w, dataItem) = 0 THEN w ELSE radioCheck(w, RadioMatch(w, dataItem))

spinBoxToWidget(w, dataItem) == spinBoxSetValue(w, dataItem)

tableItemToWidget(w, dataItem) == [w EXCEPT !.val = dataItem]

ToWidget(kind, w, dataItem) ==
    CASE kind = "check" -> checkBoxToWidget(w, dataItem)
      [] kind = "combo" -> comboBoxToWidget(w, dataItem)
      [] kind = "line" -> lineEditToWidget(w, dataItem)
      [] kind = "plain" -> plainTextToWidget(w, dataItem)
      [] kind = "radio" -> radioGroupToWidget(w, dataItem)
      [] kind = "spin" -> spinBoxToWidget(w, dataItem)
      [] kind = "table" -> tableItemToWidget(w, dataItem)

\* ---- the connectors: _transferFromWidget (old is the attribute's value) ----

checkBoxFromWidget(w, old) == checkBoxGet(w)
comboBoxFromWidget(w, old) == currentText(w)
lineEditFromWidget(w, old) == PyStr(w.val)
plainTextFromWidget(w, old) == PyStr(w.val)

\* Every checked button assigns its value in turn: the last one stays.
radioGroupFromWidget(w, old) ==
    IF \E i \in 1..Len(w.val) : w.val[i]
    THEN w.cfg.values[CHOOSE i \in 1..Len(w.val) :
                          w.val[i] /\ \A j \in (i + 1)..Len(w.val) : ~w.val[j]]
    ELSE old

spinBoxFromWidget(w, old) == PyInt(w.val)
tableItemFromWidget(w, old) == w.val

FromWidget(kind, w, old) ==
    CASE kind = "check" -> checkBoxFromWidget(w, old)
      [] kind = "combo" -> comboBoxFromWidget(w, old)
      [] kind = "line" -> lineEditFromWidget(w, old)
      [] kind = "plain" -> plainTextFromWidget(w, old)
      [] kind = "radio" -> radioGroupFromWidget(w, old)
      [] kind = "spin" -> spinBoxFromWidget(w, old)
      [] kind = "table" -> tableItemFromWidget(w, old)

\* ---- the connectors: connect() ----

\* The class connect() asserts the attribute's current value to be an
\* instance of; the radio-group and table-item connectors assert none.
AssertedClass(kind) ==
    CASE kind = "check" -> "bool"
      [] kind \in {"combo", "line", "plain"} -> "str"
      [] kind = "spin" -> "int"
      [] OTHER -> "any"

ConnectAsserts(kind, dataItem) ==
    AssertedClass(kind) = "any" \/ IsInstance(dataItem, AssertedClass(kind))

\* ---- the registry ----

\* groupFlags & self._groupFlags, bit by bit.
RECURSIVE BitAnd(_, _)
BitAnd(a, b) ==
    IF a = 0 \/ b = 0 THEN 0
    ELSE (IF a % 2 = 1 /\ b % 2 = 1 THEN 1 ELSE 0) + 2 * BitAnd(a \div 2, b \div 2)

isGroupMemberExact(c, groupFlags) == groupFlags = c.flags

isGroupMember(c, groupFlags) == BitAnd(groupFlags, c.flags) # 0

\* if (groupFlags): if (connector.isGroupMember(groupFlags)): ... else: ...
Transfers(c, groupFlags) == IF groupFlags # 0 THEN isGroupMember(c, groupFlags) ELSE TRUE

World == [data |-> data, widgets |-> widgets, visited |-> <<>>]

transferToWidgetWritingBack(st, c) ==
    [st EXCEPT !.widgets[c.key].w = ToWidget(c.kind, @, st.data[c.key]),
               !.data[c.key] = FromWidget(c.kind,
                                   ToWidget(c.kind, st.widgets[c.key].w, @), @),
               !.visited = Append(@, c.key)]

transferToWidget(st, c) ==
    [st EXCEPT !.widgets[c.key].w = ToWidget(c.kind, @, st.data[c.key]),
               !.visited = Append(@, c.key)]

transferFromWidget(st, c) ==
    [st EXCEPT !.data[c.key] = FromWidget(c.kind, st.widgets[c.key].w, @),
               !.visited = Append(@, c.key)]

RECURSIVE transferToWidgets(_, _, _)
transferToWidgets(st, cs, groupFlags) ==
    IF cs = <<>> THEN st
    ELSE transferToWidgets(
             IF Transfers(Head(cs), groupFlags) THEN transferToWidget(st, Head(cs)) ELSE st,
             Tail(cs), groupFlags)

RECURSIVE transferFromWidgets(_, _, _)
transferFromWidgets(st, cs, groupFlags) ==
    IF cs = <<>> THEN st
    ELSE transferFromWidgets(
             IF Transfers(Head(cs), groupFlags) THEN transferFromWidget(st, Head(cs)) ELSE st,
             Tail(cs), groupFlags)

\* ---- what the application and the user can do ----

\* The control configurations the application builds, per connector kind:
\* combo entries; line-edit maxLength; radio value list and exclusivity;
\* spin-box range.
Configs(kind) ==
    CASE kind = "combo" -> {<<<<"b">>, <<"a">>>>, <<>>}
      [] kind = "line" -> {1, 32767}
      [] kind = "radio" ->
            {[values |-> <<PyInt(1), PyInt(5)>>, exclusive |-> x] : x \in BOOLEAN}
      [] kind = "spin" -> {[min |-> 0, max |-> 99]}
      [] OTHER -> {0}

\* A control as the toolkit creates it.
NewControl(kind, cfg) ==
    [cfg |-> cfg,
     val |-> CASE kind = "check" -> FALSE
               [] kind = "combo" -> IF Len(cfg) > 0 THEN 0 ELSE -1
               [] kind \in {"line", "plain"} -> <<>>
               [] kind = "radio" -> [i \in 1..Len(cfg.values) |-> FALSE]
               [] kind = "spin" -> cfg.min
               [] kind = "table" -> PyNone]

\* The attribute values the application binds.
AttrValues ==
    {PyBool(TRUE), PyBool(FALSE), PyInt(1), PyInt(150),
     PyStr(<<"a">>), PyStr(<<"z", "z">>), PyStr(<<CR>>), PyNone}

\* The smaller choice the registry specification draws bindings from: one
\* configuration per kind, one value per Python type.
RegistryConfigs(kind) ==
    CASE kind = "combo" -> {<<<<"b">>, <<"a">>>>}
      [] kind = "line" -> {32767}
      [] kind = "radio" -> {[values |-> <<PyInt(1), PyInt(5)>>, exclusive |-> TRUE]}
      [] kind = "spin" -> {[min |-> 0, max |-> 99]}
      [] OTHER -> {0}

RegistryValues == {PyBool(TRUE), PyInt(1), PyStr(<<"a">>)}

\* What the user can turn a control into.
UserStates(kind, w) ==
    CASE kind = "check" -> {[w EXCEPT !.val = ~@]}
      [] kind = "combo" -> {[w EXCEPT !.val = i] : i \in 0..(Len(w.cfg) - 1)}
      [] kind = "line" -> {[w EXCEPT !.val = <<"z">>]}
      [] kind = "plain" -> {[w EXCEPT !.val = <<"z">>]}
      [] kind = "radio" -> {radioCheck(w, i) : i \in 1..Len(w.val)}
      [] kind = "spin" -> {[w EXCEPT !.val = 7]}
      [] kind = "table" -> {[w EXCEPT !.val = PyStr(<<"z">>)]}

GroupFlags == {0, 2, 3}
GroupFilters == {0, 1, 2}

FreeKeys == {k \in Keys \ {0} : \A i \in 1..Len(connectors) : connectors[i].key # k}
FreshKey == CHOOSE k \in FreeKeys : \A j \in FreeKeys : k <= j

NoPush == [phase |-> "none", g |-> 0, data |-> [k \in Keys |-> NoAttr]]
NoAttempt == [kind |-> "none", t |-> "none"]

Insert(seq, idx, x) ==
    [i \in 1..(Len(seq) + 1) |->
        IF i <= idx THEN seq[i] ELSE IF i = idx + 1 THEN x ELSE seq[i - 1]]

ConnInit ==
    /\ connectors = <<>>
    /\ data = [k \in Keys |-> IF k = 0 THEN PyInt(0) ELSE NoAttr]
    /\ widgets = [k \in Keys |-> NoWidget]
    /\ connOp = [op |-> "init", g |-> 0]
    /\ connOutcome = "ok"
    /\ attempt = NoAttempt
    /\ visited = <<>>
    /\ pushed = NoPush

\* XxxDataConnector(widget, mutableDataItem, attributeName, groupFlags)
\* followed by connectors.insert(idx, connector); the constructor's
\* connect() asserts first.
AddConnector ==
    \E kind \in Kinds, v \in RegistryValues, flags \in GroupFlags,
       idx \in 0..Len(connectors) :
      \E cfg \in RegistryConfigs(kind) :
        /\ Len(connectors) < MaxConn
        /\ connOp' = [op |-> "add", g |-> 0]
        /\ attempt' = [kind |-> kind, t |-> TypeOf(v)]
        /\ visited' = <<>>
        /\ pushed' = NoPush
        /\ IF ConnectAsserts(kind, v)
           THEN /\ connOutcome' = "ok"
                /\ connectors' = Insert(connectors, idx,
                                        [kind |-> kind, key |-> FreshKey, flags |-> flags])
                /\ data' = [data EXCEPT ![FreshKey] = v]
                /\ widgets' = [widgets EXCEPT ![FreshKey] =
                                  [kind |-> kind, w |-> NewControl(kind, cfg)]]
           ELSE /\ connOutcome' = "AssertionError"
                /\ UNCHANGED <<connectors, data, widgets>>

\* connector.connect(...) on a connector already in the registry, with
\* another attribute of its kind of control.
Reconnect ==
    \E i \in 1..Len(connectors), v \in RegistryValues :
      LET c == connectors[i]
      IN  /\ connOp' = [op |-> "reconnect", g |-> 0]
          /\ attempt' = [kind |-> c.kind, t |-> TypeOf(v)]
          /\ visited' = <<>>
          /\ pushed' = NoPush
          /\ UNCHANGED <<connectors, widgets>>
          /\ IF ConnectAsserts(c.kind, v)
             THEN connOutcome' = "ok" /\ data' = [data EXCEPT ![c.key] = v]
             ELSE connOutcome' = "AssertionError" /\ UNCHANGED data

\* del connectors[idx]
RemoveConnector ==
    \E i \in 1..Len(connectors) :
        /\ connectors' = [j \in 1..(Len(connectors) - 1) |->
                             IF j < i THEN connectors[j] ELSE connectors[j + 1]]
        /\ data' = [data EXCEPT ![connectors[i].key] = NoAttr]
        /\ widgets' = [widgets EXCEPT ![connectors[i].key] = NoWidget]
        /\ connOp' = [op |-> "remove", g |-> 0]
        /\ connOutcome' = "ok"
        /\ attempt' = NoAttempt
        /\ visited' = <<>>
        /\ pushed' = NoPush

TransferTo ==
    \E g \in GroupFilters :
      LET st == transferToWidgets(World, connectors, g)
      IN  /\ Len(connectors) > 0
          /\ data' = st.data
          /\ widgets' = st.widgets
          /\ visited' = st.visited
          /\ pushed' = [phase |-> "pushed", g |-> g, data |-> data]
          /\ connOp' = [op |-> "to", g |-> g]
          /\ connOutcome' = "ok"
          /\ attempt' = NoAttempt
          /\ UNCHANGED connectors

TransferFrom ==
    \E g \in GroupFilters :
      LET st == transferFromWidgets(World, connectors, g)
      IN  /\ Len(connectors) > 0
          /\ data' = st.data
          /\ widgets' = st.widgets
          /\ visited' = st.visited
          /\ pushed' = IF pushed.phase = "pushed" /\ pushed.g = g
                       THEN [pushed EXCEPT !.phase = "pulled"]
                       ELSE NoPush
          /\ connOp' = [op |-> "from", g |-> g]
          /\ connOutcome' = "ok"
          /\ attempt' = NoAttempt
          /\ UNCHANGED connectors

\* The user operates a bound control (part of SpecBind only: the registry
\* specification moves controls by transfers alone).
UserEdit ==
    \E i \in 1..Len(connectors) :
      LET k == connectors[i].key
      IN  \E w \in UserStates(connectors[i].kind, widgets[k].w) :
            /\ w # widgets[k].w
            /\ widgets' = [widgets EXCEPT ![k].w = w]
            /\ connOp' = [op |-> "edit", g |-> 0]
            /\ connOutcome' = "ok"
            /\ attempt' = NoAttempt
            /\ visited' = <<>>
            /\ pushed' = NoPush
            /\ UNCHANGED <<connectors, data>>

ConnNext ==
    \/ AddConnector
    \/ Reconnect
    \/ RemoveConnector
    \/ TransferTo
    \/ TransferFrom

(***************************************************************************)
(* Part 3.  Field validators (PyQt5Validators.py)                           *)
(***************************************************************************)

ERROR_BACKGROUND_STYLE ==
    ":enabled { color: Black; background-color: Coral } :disabled { color: Black; background-color: Coral }"

FLAG_CLEAR_HIGHLIGHT_BEFORE_VALIDATING == 1
FLAG_HIGHLIGHT_WIDGETS_WITH_ERRORS == 2
FLAG_SHOW_ERROR_MESSAGE == 4
FLAG_DISABLED_WIDGET_ALWAYS_VALID == 8

AllFlags ==
    FLAG_CLEAR_HIGHLIGHT_BEFORE_VALIDATING + FLAG_HIGHLIGHT_WIDGETS_WITH_ERRORS
        + FLAG_SHOW_ERROR_MESSAGE + FLAG_DISABLED_WIDGET_ALWAYS_VALID

FlagValues == 0..AllFlags

\* The concrete validator classes.
ValidatorKinds == {"ExecutableExists", "FileExists", "FolderExists", "NotBlank",
                   "ListNotEmpty", "ComboNotEmpty"}

LineEditKinds == {"ExecutableExists", "FileExists", "FolderExists", "NotBlank"}

\* a | b and a ^ b, bit by bit.
RECURSIVE BitOr(_, _)
BitOr(a, b) ==
    IF a = 0 THEN b
    ELSE IF b = 0 THEN a
    ELSE (IF a % 2 = 1 \/ b % 2 = 1 THEN 1 ELSE 0) + 2 * BitOr(a \div 2, b \div 2)

RECURSIVE BitXor(_, _)
BitXor(a, b) ==
    IF a = 0 THEN b
    ELSE IF b = 0 THEN a
    ELSE (IF (a % 2) # (b % 2) THEN 1 ELSE 0) + 2 * BitXor(a \div 2, b \div 2)

\* if (self._flags & self.FLAG_X)
HasFlag(flags, flag) == BitAnd(flags, flag) # 0

\* ---- the file system and the search path the path validators look at ----

\* A line edit's text is a sequence of tokens: a separator "/", or one
\* path component.  The directory the process runs in holds the file f and
\* the directory d, d holds a file f, the root directory holds a file f, and
\* the search path resolves the command x (which the current directory does
\* not hold).
SEP == "/"
DOT == "."

LineTexts ==
    { <<>>, <<" ">>, <<"f">>, <<"d">>, <<"x">>, <<"q">>, <<DOT>>,
      <<DOT, SEP, "x">>, <<"x", SEP>>, <<SEP, "f">>, <<"d", SEP, "f">> }

IsComponent(token) == token # SEP /\ token # DOT

\* pathlib.Path(text).parts: the root, then the components; empty and "."
\* components and a trailing separator are dropped.
PathParts(text) ==
    LET components == SelectSeq(text, IsComponent)
    IN  IF text # <<>> /\ text[1] = SEP THEN <<SEP>> \o components ELSE components

\* pathlib.Path.name: the last component, '' for the root or the empty path.
PathName(parts) ==
    IF parts = <<>> \/ parts = <<SEP>> THEN "" ELSE parts[Len(parts)]

\* What a path leads to: "file", "dir" or "none".
Resolve(parts) ==
    IF parts = <<>> \/ parts = <<SEP>> \/ parts = <<"d">> THEN "dir"
    ELSE IF parts = <<"f">> \/ parts = <<"d", "f">> \/ parts = <<SEP, "f">> THEN "file"
    ELSE "none"

is_file(parts) == Resolve(parts) = "file"
is_dir(parts) == Resolve(parts) = "dir"

\* QStandardPaths.findExecutable(name): the path found, '' if none.
findExecutable(name) == IF name = "x" THEN <<SEP, "bin", SEP, "x">> ELSE <<>>

VARIABLES
    vKind,             \* the validator's class
    vFlags,            \* _flags
    preExistingStyle,  \* _preExistingStyle: PyInt(0), or PyStr(style sheet)
    control,           \* _widget: [enabled, styleSheet, text, count, currentText]
    mainWindowSet,     \* whether QApplication.instance() has a mainWindow attribute
    userStyle,         \* the style sheet the application gave the control
    vOp,               \* the last call
    vResult,           \* what isValid() returned: "True", "False", or the exception
    vShown,            \* whether that call showed the message box
    vBefore            \* the validator and its control when that call started

validVars == <<vKind, vFlags, preExistingStyle, control, mainWindowSet, userStyle,
               vOp, vResult, vShown, vBefore>>

\* The validator as its methods see it.
Validator == [flags |-> vFlags, pre |-> preExistingStyle, control |-> control,
              shown |-> FALSE, result |-> "none"]

NoCall == [called |-> FALSE]
Call == [called |-> TRUE, pre |-> preExistingStyle, control |-> control, flags |-> vFlags]

\* self._preExistingStyle != 0
StyleCapturedOrEmpty(style) == style # PyInt(0) /\ style # PyStr("")

StyleCaptured(style) == style # PyInt(0)

isHighlighted(v) == StyleCaptured(v.pre)

clearHighlightIntoText(v) ==
    IF StyleCaptured(v.pre)
    THEN [v EXCEPT !.control.text = <<ValOf(v.pre)>>, !.pre = PyInt(0)]
    ELSE v

\* if (self._preExistingStyle != 0): setStyleSheet(it); self._preExistingStyle = 0
clearHighlight(v) ==
    IF StyleCaptured(v.pre)
    THEN [v EXCEPT !.control.styleSheet = ValOf(v.pre), !.pre = PyInt(0)]
    ELSE v

setHighlight(v) ==
    LET captured == IF ~StyleCaptured(v.pre)
                    THEN [v EXCEPT !.pre = PyStr(v.control.styleSheet)]
                    ELSE v
    IN  [captured EXCEPT !.control.styleSheet = ERROR_BACKGROUND_STYLE]

addFlags(v, flags) == [v EXCEPT !.flags = BitOr(v.flags, flags)]
removeFlags(v, flags) == [v EXCEPT !.flags = BitXor(v.flags, flags)]
setFlags(v, flags) == [v EXCEPT !.flags = flags]

\* ---- the checks of the concrete validators ----

\* Python truth of a str: not empty.
Truthy(text) == text # <<>>

ExecutableExists(c) ==
    LET path == PathParts(c.text)
    IN  \/ is_file(path)
        \/ Len(path) = 1 /\ findExecutable(PathName(path)) # <<>>

FileExists(c) == Truthy(c.text) /\ is_file(PathParts(c.text))

FolderExists(c) == Truthy(c.text) /\ is_dir(PathParts(c.text))

NotBlank(c) == Truthy(c.text)

ListNotEmpty(c) == c.count # 0

ComboNotEmpty(c) == c.count # 0 /\ c.currentText # ""

Check(kind, c) ==
    CASE kind = "ExecutableExists" -> ExecutableExists(c)
      [] kind = "FileExists" -> FileExists(c)
      [] kind = "FolderExists" -> FolderExists(c)
      [] kind = "NotBlank" -> NotBlank(c)
      [] kind = "ListNotEmpty" -> ListNotEmpty(c)
      [] kind = "ComboNotEmpty" -> ComboNotEmpty(c)

\* ---- isValid(), the same in every concrete class but for the check ----

DisabledIsValidInverted(v) ==
    HasFlag(v.flags, FLAG_DISABLED_WIDGET_ALWAYS_VALID) /\ v.control.enabled

\* (self._flags & FLAG_DISABLED_WIDGET_ALWAYS_VALID) and (not self._widget.isEnabled())
DisabledIsValid(v) ==
    HasFlag(v.flags, FLAG_DISABLED_WIDGET_ALWAYS_VALID) /\ ~v.control.enabled

\* QMessageBox.critical(QApplication.instance().mainWindow, ...): the
\* attribute lookup raises when the application object has no mainWindow.
showErrorMessage(v) ==
    IF mainWindowSet
    THEN [v EXCEPT !.shown = TRUE, !.result = "False"]
    ELSE [v EXCEPT !.result = "AttributeError"]

\* The tail of isValid() after a failed check.
reportError(v) ==
    LET marked == IF HasFlag(v.flags, FLAG_HIGHLIGHT_WIDGETS_WITH_ERRORS)
                  THEN setHighlight(v)
                  ELSE v
    IN  IF HasFlag(v.flags, FLAG_SHOW_ERROR_MESSAGE)
        THEN showErrorMessage(marked)
        ELSE [marked EXCEPT !.result = "False"]

\* isValid() without the clearing step at its start.
isValidNotClearing(kind, v) ==
    IF DisabledIsValid(v) THEN [v EXCEPT !.result = "True"]
    ELSE IF Check(kind, v.control) THEN [v EXCEPT !.result = "True"]
    ELSE reportError(v)

isValid(kind, v) ==
    LET cleared == IF HasFlag(v.flags, FLAG_CLEAR_HIGHLIGHT_BEFORE_VALIDATING)
                   THEN clearHighlight(v)
                   ELSE v
    IN  IF DisabledIsValid(cleared) THEN [cleared EXCEPT !.result = "True"]
        ELSE IF Check(kind, cleared.control) THEN [cleared EXCEPT !.result = "True"]
        ELSE reportError(cleared)

\* ---- the controls and the steps ----

\* What a control of the validator's kind can hold.
Contents(kind) ==
    IF kind \in LineEditKinds
    THEN {[text |-> t, count |-> 0, currentText |-> ""] : t \in LineTexts}
    ELSE IF kind = "ListNotEmpty"
    THEN {[text |-> <<>>, count |-> n, currentText |-> ""] : n \in 0..2}
    ELSE {[text |-> <<>>, count |-> n, currentText |-> t] : n \in 0..1, t \in {"", "a"}}

WithContent(c, content) ==
    [c EXCEPT !.text = content.text, !.count = content.count,
              !.currentText = content.currentText]

ContentOf(c) == [text |-> c.text, count |-> c.count, currentText |-> c.currentText]

UserStyles == {"", "s"}

\* A validator after a method: its fields and its control's.
Validated(op, v) ==
    /\ vFlags' = v.flags
    /\ preExistingStyle' = v.pre
    /\ control' = v.control
    /\ vOp' = op
    /\ vResult' = v.result
    /\ vShown' = v.shown
    /\ vBefore' = Call
    /\ UNCHANGED <<vKind, mainWindowSet, userStyle>>

\* QWidget_Abstract_Validator.__init__ on a control of the class's kind:
\* all four flags set, no style captured.
ValidInit ==
    \E kind \in ValidatorKinds, style \in UserStyles, enabled \in BOOLEAN,
       host \in BOOLEAN :
      \E content \in Contents(kind) :
        /\ vKind = kind
        /\ vFlags = AllFlags
        /\ preExistingStyle = PyInt(0)
        /\ control = WithContent([enabled |-> enabled, styleSheet |-> style,
                                  text |-> <<>>, count |-> 0, currentText |-> ""],
                                 content)
        /\ mainWindowSet = host
        /\ userStyle = style
        /\ vOp = "init"
        /\ vResult = "none"
        /\ vShown = FALSE
        /\ vBefore = NoCall

IsValid == Validated("isValid", isValid(vKind, Validator))

SetHighlight == Validated("setHighlight", setHighlight(Validator))

ClearHighlight == Validated("clearHighlight", clearHighlight(Validator))

\* The flag methods leave everything but _flags alone.
Flagged(v) ==
    /\ vFlags' = v.flags
    /\ vOp' = "flags"
    /\ vResult' = "none"
    /\ vShown' = FALSE
    /\ vBefore' = NoCall
    /\ UNCHANGED <<vKind, preExistingStyle, control, mainWindowSet, userStyle>>

SingleFlags == {FLAG_CLEAR_HIGHLIGHT_BEFORE_VALIDATING, FLAG_HIGHLIGHT_WIDGETS_WITH_ERRORS,
                FLAG_SHOW_ERROR_MESSAGE, FLAG_DISABLED_WIDGET_ALWAYS_VALID}

SetFlags == \E flags \in FlagValues : flags # vFlags /\ Flagged(setFlags(Validator, flags))

AddFlags == \E flags \in SingleFlags : ~HasFlag(vFlags, flags) /\ Flagged(addFlags(Validator, flags))

RemoveFlags == \E flags \in SingleFlags : Flagged(removeFlags(Validator, flags))

\* The user, or the application, changes what the control holds.
EditControl ==
    \E content \in Contents(vKind) :
        /\ content # ContentOf(control)
        /\ control' = WithContent(control, content)
        /\ vOp' = "host"
        /\ vResult' = "none"
        /\ vShown' = FALSE
        /\ vBefore' = NoCall
        /\ UNCHANGED <<vKind, vFlags, preExistingStyle, mainWindowSet, userStyle>>

\* The application enables or disables the control.
SetEnabled ==
    /\ control' = [control EXCEPT !.enabled = ~control.enabled]
    /\ vOp' = "host"
    /\ vResult' = "none"
    /\ vShown' = FALSE
    /\ vBefore' = NoCall
    /\ UNCHANGED <<vKind, vFlags, preExistingStyle, mainWindowSet, userStyle>>

ValidNext ==
    \/ IsValid
    \/ SetHighlight
    \/ ClearHighlight
    \/ SetFlags
    \/ AddFlags
    \/ RemoveFlags
    \/ EditControl
    \/ SetEnabled

\* No validator: a control nobody validates.
ValidIdle ==
    /\ vKind = "NotBlank"
    /\ vFlags = AllFlags
    /\ preExistingStyle = PyInt(0)
    /\ control = [enabled |-> TRUE, styleSheet |-> "", text |-> <<>>, count |-> 0,
                  currentText |-> ""]
    /\ mainWindowSet = FALSE
    /\ userStyle = ""
    /\ vOp = "init"
    /\ vResult = "none"
    /\ vShown = FALSE
    /\ vBefore = NoCall

(***************************************************************************)
(* Part 4.  QRecentFiles (PyQt5RecentFiles.py)                              *)
(***************************************************************************)

\* QRecentFiles.MAX_RECENT_FILES
MAX_RECENT_FILES == 10

\* Bound on the number of QRecentFiles calls the model follows.
MaxCalls == 4

\* A file path is <<directory, file name>>; '' is the empty fileName.
EmptyPath == <<0, 0>>

\* The paths of the model: path 2 has the file name of path 1 in another
\* directory, the others differ in their names.
PathCount == MAX_RECENT_FILES + 1
KnownPath(i) == IF i = 2 THEN <<2, 1>> ELSE <<1, i>>
KnownPaths == {KnownPath(i) : i \in 1..PathCount}

\* os.path.exists(): the files of paths 2 and 3 are gone.
existing == KnownPaths \ {KnownPath(2), KnownPath(3)}

\* The capacities windows are constructed with: under, at and over the
\* default.
Capacities == {3, MAX_RECENT_FILES, MAX_RECENT_FILES + 2}

\* windowTitle: None, or the application's title.
WindowTitles == {"", "app"}

VARIABLES
    recentFileList,  \* QSettings: the value under 'recentFileList'
    windows,         \* the top-level QRecentFiles windows: [maxRecentFiles,
                     \*   windowTitle, recentFileActs, currentFile, caption]
    rOp,             \* the last call: [op, win, arg], and the windows it refreshed
    rOutcome,        \* "ok", "returned early", or the exception raised
    rBefore,         \* the persisted list when removeDeadRecentFiles started
    calls            \* the number of calls made so far

recentVars == <<recentFileList, windows, rOp, rOutcome, rBefore, calls>>

\* QFileInfo(fullFileName).fileName()
strippedName(path) == path[2]

LabelFromZero(i, path) == <<"&", i, strippedName(path)>>

\* '&{} {}'.format(i + 1, self.strippedName(files[i])), i counted from 0.
Label(i, path) == <<"&", i + 1, strippedName(path)>>

\* QAction(self, visible=False, triggered=triggeredMethod)
NewAction == [text |-> <<>>, data |-> EmptyPath, visible |-> FALSE]

\* list.remove(x): the first occurrence goes; ValueError is passed over.
RECURSIVE Remove(_, _)
Remove(files, x) ==
    IF files = <<>> THEN <<>>
    ELSE IF Head(files) = x THEN Tail(files)
    ELSE <<Head(files)>> \o Remove(Tail(files), x)

\* del files[n:]
\* min(a, b)
min(a, b) == IF a < b THEN a ELSE b

\* del files[n:]
Truncate(files, n) == SubSeq(files, 1, min(Len(files), n))

\* updateRecentFileActions on one window: slot i (from 0) is recentFileActs[i];
\* an index past the end of recentFileActs raises IndexError, with the slots
\* set so far left as they are.
updateRecentFileActions(w, files) ==
    LET numRecentFiles == min(Len(files), MAX_RECENT_FILES)
        slots == Len(w.recentFileActs)
        shown == [i \in 1..slots |->
                     IF i <= numRecentFiles
                     THEN [text |-> Label(i - 1, files[i]), data |-> files[i],
                           visible |-> TRUE]
                     ELSE w.recentFileActs[i]]
        hidden == [i \in 1..slots |->
                      IF i > numRecentFiles /\ i <= MAX_RECENT_FILES
                      THEN [shown[i] EXCEPT !.visible = FALSE]
                      ELSE shown[i]]
    IN  IF numRecentFiles > slots
        THEN [w |-> [w EXCEPT !.recentFileActs = shown], outcome |-> "IndexError"]
        ELSE IF MAX_RECENT_FILES > slots
        THEN [w |-> [w EXCEPT !.recentFileActs = hidden], outcome |-> "IndexError"]
        ELSE [w |-> [w EXCEPT !.recentFileActs = hidden], outcome |-> "ok"]

\* for widget in QApplication.topLevelWidgets(): widget.updateRecentFileActions()
\* in the order the toolkit lists the windows; the first exception ends it.
RECURSIVE refreshAll(_, _, _)
refreshAll(wins, order, files) ==
    IF order = <<>> THEN [windows |-> wins, outcome |-> "ok", refreshed |-> {}]
    ELSE LET r == updateRecentFileActions(wins[Head(order)], files)
             next == [wins EXCEPT ![Head(order)] = r.w]
             rest == refreshAll(next, Tail(order), files)
         IN  IF r.outcome # "ok"
             THEN [windows |-> next, outcome |-> r.outcome, refreshed |-> {Head(order)}]
             ELSE [rest EXCEPT !.refreshed = rest.refreshed \cup {Head(order)}]

\* The orders QApplication.topLevelWidgets() can list the windows in.
Orders(n) ==
    {o \in [1..n -> 1..n] : \A i, j \in 1..n : i # j => o[i] # o[j]}

\* removeDeadRecentFiles: files and filelist are two copies of the setting;
\* the loop runs over one and removes from the other.
RECURSIVE removeDeadAliased(_, _)
removeDeadAliased(files, idx) ==
    IF idx > Len(files) THEN files
    ELSE IF files[idx] \notin existing
    THEN removeDeadAliased(Remove(files, files[idx]), idx + 1)
    ELSE removeDeadAliased(files, idx + 1)

removeDeadInPlace(files, filelist) == removeDeadAliased(files, 1)

RECURSIVE removeDead(_, _)
removeDead(files, filelist) ==
    IF filelist = <<>> THEN files
    ELSE IF Head(filelist) \notin existing
    THEN removeDead(Remove(files, Head(filelist)), Tail(filelist))
    ELSE removeDead(files, Tail(filelist))

\* files.remove(fileName); files.insert(0, fileName); del files[MAX_RECENT_FILES:]
recordAtEnd(files, fileName) ==
    Truncate(Remove(files, fileName) \o <<fileName>>, MAX_RECENT_FILES)

recordUse(files, fileName) ==
    Truncate(<<fileName>> \o Remove(files, fileName), MAX_RECENT_FILES)

\* The window title setCurrentFile sets: '{} - {}'.format(name, windowTitle),
\* or windowTitle alone.
Caption(w, fileName) ==
    IF fileName # EmptyPath
    THEN <<strippedName(fileName), w.windowTitle>>
    ELSE <<w.windowTitle>>

\* ---- the steps ----

NoList == <<EmptyPath>>

Called(op, win, arg, refreshed, result) ==
    /\ rOp' = [op |-> op, win |-> win, arg |-> arg, refreshed |-> refreshed]
    /\ rOutcome' = result
    /\ rBefore' = IF op = "removeDeadRecentFiles" THEN recentFileList ELSE NoList
    /\ calls < MaxCalls
    /\ calls' = calls + 1

\* QRecentFiles.__init__ for each window of the application; the setting
\* holds what an earlier run with these capacities left.
InitLengths == {0, 3, MAX_RECENT_FILES}

WindowSets == {<<MAX_RECENT_FILES>>, <<3>>, <<MAX_RECENT_FILES + 2>>,
               <<MAX_RECENT_FILES, 3>>}

RecentInit ==
    \E caps \in WindowSets, n \in InitLengths, title \in WindowTitles :
        /\ \A i \in 1..Len(caps) : caps[i] \in Capacities /\ n <= caps[i]
        /\ recentFileList = [i \in 1..n |-> KnownPath(i)]
        /\ windows = [i \in 1..Len(caps) |->
                         [maxRecentFiles |-> caps[i], windowTitle |-> title,
                          recentFileActs |-> <<>>, currentFile |-> EmptyPath,
                          caption |-> <<>>]]
        /\ rOp = [op |-> "init", win |-> 0, arg |-> EmptyPath, refreshed |-> {}]
        /\ rOutcome = "ok"
        /\ rBefore = NoList
        /\ calls = 0

\* setupRecentFiles(menu, triggeredMethod, windowTitle), once per window.
SetupRecentFiles ==
    \E i \in 1..Len(windows) :
      LET w == windows[i]
          made == [w EXCEPT !.recentFileActs =
                      [k \in 1..w.maxRecentFiles |-> NewAction]]
          r == updateRecentFileActions(made, recentFileList)
      IN  /\ w.recentFileActs = <<>>
          /\ windows' = [windows EXCEPT ![i] = r.w]
          /\ UNCHANGED recentFileList
          /\ Called("setupRecentFiles", i, EmptyPath, {i}, r.outcome)

\* The paths the application records.
InputPaths == {EmptyPath, KnownPath(1), KnownPath(2), KnownPath(PathCount)}

SetCurrentFile ==
    \E i \in 1..Len(windows), fileName \in InputPaths, order \in Orders(Len(windows)) :
      LET w == windows[i]
          titled == [w EXCEPT !.currentFile = fileName,
                              !.caption = IF w.windowTitle # ""
                                          THEN Caption(w, fileName)
                                          ELSE w.caption]
          files == recordUse(recentFileList, fileName)
          r == refreshAll([windows EXCEPT ![i] = titled], order, files)
      IN  IF w.windowTitle # "" /\ fileName = EmptyPath
          THEN /\ windows' = [windows EXCEPT ![i] = titled]
               /\ UNCHANGED recentFileList
               /\ Called("setCurrentFile", i, fileName, {}, "returned early")
          ELSE /\ recentFileList' = files
               /\ windows' = r.windows
               /\ Called("setCurrentFile", i, fileName, r.refreshed, r.outcome)

RemoveDeadRecentFiles ==
    \E i \in 1..Len(windows), order \in Orders(Len(windows)) :
      LET files == removeDead(recentFileList, recentFileList)
          r == refreshAll(windows, order, files)
      IN  /\ recentFileList' = files
          /\ windows' = r.windows
          /\ Called("removeDeadRecentFiles", i, EmptyPath, r.refreshed, r.outcome)

ClearRecentFiles ==
    \E i \in 1..Len(windows), order \in Orders(Len(windows)) :
      LET r == refreshAll(windows, order, <<>>)
      IN  /\ recentFileList' = <<>>
          /\ windows' = r.windows
          /\ Called("clearRecentFiles", i, EmptyPath, r.refreshed, r.outcome)

RecentNext ==
    \/ SetupRecentFiles
    \/ SetCurrentFile
    \/ RemoveDeadRecentFiles
    \/ ClearRecentFiles

\* No window with a recent-files menu.
RecentIdle ==
    /\ recentFileList = <<>>
    /\ windows = <<>>
    /\ rOp = [op |-> "init", win |-> 0, arg |-> EmptyPath, refreshed |-> {}]
    /\ rOutcome = "ok"
    /\ rBefore = NoList
    /\ calls = 0

(***************************************************************************)
(* Part 5: PyHelpers                                                        *)
(*                                                                          *)
(* Text is a sequence of one-character strings, so that replace, split,     *)
(* strip and the character filter work on it as Python's do on str.         *)
(***************************************************************************)

\* ---- TemporaryFilesList ----

MaxTemp == 2

TempNames == {"t1", "t2"}

VARIABLES temporaryFilenames, disk, locked, alive, tOp, tBefore

tempVars == <<temporaryFilenames, disk, locked, alive, tOp, tBefore>>

NoTemp == [taken |-> FALSE, list |-> <<>>, disk |-> {}]

TempSnapshot == [taken |-> TRUE, list |-> temporaryFilenames, disk |-> disk]

\* os.unlink(name): removes an existing file the process may remove, and
\* raises OSError otherwise (no such file, or no permission).
os_unlink(name, d) ==
    IF name \in d /\ name \notin locked
    THEN [raised |-> FALSE, disk |-> d \ {name}]
    ELSE [raised |-> TRUE, disk |-> d]

\* The for loop of unlink() with the exception leaving the loop.
RECURSIVE unlinkLoopUnguarded(_, _, _)
unlinkLoopUnguarded(names, d, tried) ==
    IF names = <<>>
    THEN [disk |-> d, tried |-> tried, raised |-> FALSE]
    ELSE LET r == os_unlink(Head(names), d)
         IN  IF r.raised
             THEN [disk |-> d, tried |-> Append(tried, Head(names)), raised |-> TRUE]
             ELSE unlinkLoopUnguarded(Tail(names), r.disk, Append(tried, Head(names)))

\* The for loop of unlink(): try: os.unlink(name) except: pass.
RECURSIVE unlinkLoop(_, _, _)
unlinkLoop(names, d, tried) ==
    IF names = <<>>
    THEN [disk |-> d, tried |-> tried, raised |-> FALSE]
    ELSE LET r == os_unlink(Head(names), d)
         IN  unlinkLoop(Tail(names), r.disk, Append(tried, Head(names)))

\* unlink(): the loop, then self.clear() unless an exception left the method.
unlink(names, d) ==
    LET r == unlinkLoop(names, d, <<>>)
    IN  [list   |-> IF r.raised THEN names ELSE <<>>,
         disk   |-> r.disk,
         tried  |-> r.tried,
         raised |-> r.raised]

TempCalled(op, tried, raised) == tOp' = [op |-> op, tried |-> tried, raised |-> raised]

TempInit ==
    /\ temporaryFilenames = <<>>
    /\ disk = {}
    /\ locked \in SUBSET TempNames
    /\ alive = TRUE
    /\ tOp = [op |-> "__init__", tried |-> <<>>, raised |-> FALSE]
    /\ tBefore = NoTemp

\* The program writes a temporary file.
CreateFile ==
    \E name \in TempNames \ disk :
      /\ disk' = disk \cup {name}
      /\ TempCalled("create", <<>>, FALSE)
      /\ tBefore' = NoTemp
      /\ UNCHANGED <<temporaryFilenames, locked, alive>>

TempConstruct ==
    /\ ~alive
    /\ alive' = TRUE
    /\ temporaryFilenames' = <<>>
    /\ TempCalled("__init__", <<>>, FALSE)
    /\ tBefore' = NoTemp
    /\ UNCHANGED <<disk, locked>>

TempInsert ==
    /\ alive
    /\ Len(temporaryFilenames) < MaxTemp
    /\ \E idx \in 0..Len(temporaryFilenames), name \in TempNames :
         temporaryFilenames' = InsertAt(temporaryFilenames, idx, name)
    /\ TempCalled("insert", <<>>, FALSE)
    /\ tBefore' = NoTemp
    /\ UNCHANGED <<disk, locked, alive>>

TempClear ==
    /\ alive
    /\ temporaryFilenames' = <<>>
    /\ TempCalled("clear", <<>>, FALSE)
    /\ tBefore' = TempSnapshot
    /\ UNCHANGED <<disk, locked, alive>>

TempUnlink ==
    /\ alive
    /\ LET r == unlink(temporaryFilenames, disk)
       IN  /\ temporaryFilenames' = r.list
           /\ disk' = r.disk
           /\ TempCalled("unlink", r.tried, r.raised)
    /\ tBefore' = TempSnapshot
    /\ UNCHANGED <<locked, alive>>

\* __del__: the object is collected; unlink() runs on what it still lists.
TempDel ==
    /\ alive
    /\ LET r == unlink(temporaryFilenames, disk)
       IN  /\ temporaryFilenames' = r.list
           /\ disk' = r.disk
           /\ TempCalled("__del__", r.tried, r.raised)
    /\ alive' = FALSE
    /\ tBefore' = TempSnapshot
    /\ UNCHANGED locked

TempNext ==
    \/ CreateFile
    \/ TempConstruct
    \/ TempInsert
    \/ TempClear
    \/ TempUnlink
    \/ TempDel

\* No temporary-files list.
TempIdle ==
    /\ temporaryFilenames = <<>>
    /\ disk = {}
    /\ locked = {}
    /\ alive = FALSE
    /\ tOp = [op |-> "idle", tried |-> <<>>, raised |-> FALSE]
    /\ tBefore = NoTemp

\* ---- text ----

DigitChars == <<"0", "1", "2", "3", "4", "5", "6", "7", "8", "9">>

IsDigit(c) == \E i \in 1..10 : DigitChars[i] = c

DigitValue(c) == (CHOOSE i \in 1..10 : DigitChars[i] = c) - 1

\* '%d' % n for n >= 0.
RECURSIVE formatd(_)
formatd(n) ==
    IF n < 10 THEN <<DigitChars[n + 1]>>
    ELSE Append(formatd(n \div 10), DigitChars[(n % 10) + 1])

\* Left padding with zeros to a width, as the 0 flag of a % format does.
RECURSIVE zfill(_, _)
zfill(s, width) == IF Len(s) >= width THEN s ELSE zfill(<<"0">> \o s, width)

StartsWith(s, prefix) ==
    Len(s) >= Len(prefix) /\ SubSeq(s, 1, Len(prefix)) = prefix

\* str.replace(old, new), old not empty.
RECURSIVE replace(_, _, _)
replace(s, old, new) ==
    IF s = <<>> THEN <<>>
    ELSE IF StartsWith(s, old)
         THEN new \o replace(SubSeq(s, Len(old) + 1, Len(s)), old, new)
         ELSE <<Head(s)>> \o replace(Tail(s), old, new)

\* str.split(sep) for a one-character separator.
RECURSIVE split(_, _)
split(s, sep) ==
    IF \A i \in 1..Len(s) : s[i] # sep THEN <<s>>
    ELSE LET i == CHOOSE k \in 1..Len(s) :
                    s[k] = sep /\ \A j \in 1..(k - 1) : s[j] # sep
         IN  <<SubSeq(s, 1, i - 1)>> \o split(SubSeq(s, i + 1, Len(s)), sep)

\* sep.join(parts).
RECURSIVE join(_, _)
join(sep, parts) ==
    IF parts = <<>> THEN <<>>
    ELSE IF Len(parts) = 1 THEN parts[1]
         ELSE parts[1] \o sep \o join(sep, Tail(parts))

RECURSIVE ToNat(_)
ToNat(ds) ==
    IF ds = <<>> THEN 0
    ELSE 10 * ToNat(SubSeq(ds, 1, Len(ds) - 1)) + DigitValue(ds[Len(ds)])

\* int(float(x)) for unsigned text: digits with an optional fraction give
\* the whole part, any other text raises ValueError.
int_float(x) ==
    LET p == split(x, ".")
        digits == \A i \in 1..Len(p) : \A j \in 1..Len(p[i]) : IsDigit(p[i][j])
        some == \E i \in 1..Len(p) : p[i] # <<>>
    IN  IF Len(p) <= 2 /\ digits /\ some
        THEN [ok |-> TRUE, value |-> ToNat(p[1])]
        ELSE [ok |-> FALSE, value |-> 0]

\* ---- TimedeltaToString ----

MaxDays == 2

\* The durations formatted: datetime.timedelta keeps 0 <= seconds < 86400
\* and 0 <= microseconds < 1000000; only non-negative durations are drawn.
Durations ==
    [days : 0..MaxDays,
     seconds : {0, 5, 59, 3661, 7200, 86399},
     microseconds : {0, 500000}]

VARIABLES tdIn, tdOut

durationVars == <<tdIn, tdOut>>

\* str(td) of datetime.timedelta for td >= 0.
timedelta_str(td) ==
    LET hh == td.seconds \div 3600
        mm == (td.seconds \div 60) % 60
        ss == td.seconds % 60
        s  == formatd(hh) \o <<":">> \o zfill(formatd(mm), 2)
                          \o <<":">> \o zfill(formatd(ss), 2)
        d  == IF td.days # 0
              THEN formatd(td.days) \o <<" ", "d", "a", "y">>
                   \o (IF td.days # 1 THEN <<"s">> ELSE <<>>) \o <<",", " ">>
              ELSE <<>>
        us == IF td.microseconds # 0
              THEN <<".">> \o zfill(formatd(td.microseconds), 6)
              ELSE <<>>
    IN  d \o s \o us

\* '%d' in place of '%02d'.
formatUnpadded(n) == formatd(n)

\* '%02d' % n
format02d(n) == zfill(formatd(n), 2)

TimedeltaToString(td, noZeroDays) ==
    LET out == IF td.days > 0
               THEN replace(timedelta_str(td), <<" ", "d", "a", "y", "s", ",", " ">>, <<":">>)
               ELSE IF noZeroDays THEN timedelta_str(td)
                    ELSE <<"0", ":">> \o timedelta_str(td)
        outAr == split(out, ":")
    IN  IF \E i \in 1..Len(outAr) : ~int_float(outAr[i]).ok
        THEN <<"ValueError", <<>>>>
        ELSE <<"ok", join(<<":">>,
                          [i \in 1..Len(outAr) |-> format02d(int_float(outAr[i]).value)])>>

DurationInit ==
    /\ tdIn \in [td : Durations, noZeroDays : BOOLEAN]
    /\ tdOut = <<"pending", <<>>>>

Format ==
    /\ tdOut[1] = "pending"
    /\ tdOut' = TimedeltaToString(tdIn.td, tdIn.noZeroDays)
    /\ UNCHANGED tdIn

DurationIdle ==
    /\ tdIn = [td |-> [days |-> 0, seconds |-> 0, microseconds |-> 0], noZeroDays |-> TRUE]
    /\ tdOut = <<"idle", <<>>>>

\* ---- NormalizeFileName ----

MaxName == 3

BAD_FILENAME_CHARACTERS ==
    {"|", "^", "?", "*", "<", ">", "[", "]", "=", "+", "\"", "\\", "/", ",", ":", ";"}

\* The characters file names are drawn from: a letter, a space and a
\* no-break space, two denylisted characters, and three characters that
\* decompose (a fullwidth solidus, an accented letter, a double colon equal).
NameChars == {"a", " ", "U+00A0", "/", ":", "U+FF0F", "U+00E9", "U+2A74"}

Whitespace == {" ", "U+00A0"}

VARIABLES nameIn, nameOut

nameVars == <<nameIn, nameOut>>

RECURSIVE lstrip(_)
lstrip(s) == IF s # <<>> /\ Head(s) \in Whitespace THEN lstrip(Tail(s)) ELSE s

RECURSIVE rstrip(_)
rstrip(s) ==
    IF s # <<>> /\ s[Len(s)] \in Whitespace THEN rstrip(SubSeq(s, 1, Len(s) - 1)) ELSE s

\* str.strip()
strip(s) == rstrip(lstrip(s))

\* The compatibility decomposition of one character.
Decomposition(c) ==
    CASE c = "U+FF0F" -> <<"/">>
      [] c = "U+00E9" -> <<"e", "U+0301">>
      [] c = "U+2A74" -> <<":", ":", "=">>
      [] c = "U+00A0" -> <<" ">>
      [] OTHER -> <<c>>

\* unicodedata.normalize('NFKD', s)
RECURSIVE normalize(_)
normalize(s) == IF s = <<>> THEN <<>> ELSE Decomposition(Head(s)) \o normalize(Tail(s))

\* ''.join(c for c in s if c not in BAD_FILENAME_CHARACTERS)
RECURSIVE removeBad(_)
removeBad(s) ==
    IF s = <<>> THEN <<>>
    ELSE IF Head(s) \in BAD_FILENAME_CHARACTERS THEN removeBad(Tail(s))
         ELSE <<Head(s)>> \o removeBad(Tail(s))

\* The denylist applied before the decomposition.
NormalizeFilteredFirst(filename) == normalize(removeBad(strip(filename)))

NormalizeFileName(filename) == removeBad(normalize(strip(filename)))

RECURSIVE TextsUpTo(_)
TextsUpTo(n) ==
    IF n = 0 THEN {<<>>}
    ELSE LET shorter == TextsUpTo(n - 1)
         IN  shorter \cup {Append(s, c) : s \in shorter, c \in NameChars}

NameInit ==
    /\ nameIn \in TextsUpTo(MaxName)
    /\ nameOut = <<"pending", <<>>>>

Normalize ==
    /\ nameOut[1] = "pending"
    /\ nameOut' = <<"ok", NormalizeFileName(nameIn)>>
    /\ UNCHANGED nameIn

NameIdle ==
    /\ nameIn = <<>>
    /\ nameOut = <<"idle", <<>>>>

\* ---- GetVolumeLabel ----

\* A folder is the text of a path, one token per separator and per name; a
\* directory is named by its root ("/" or ".", the current directory) and
\* the names below it.
VolumeFolders ==
    {<<"/", "a", "/", "b">>, <<"/", "a", "/", "b", "/">>, <<"/", "b">>, <<"b">>}

VolumeDirs ==
    {<<"/">>, <<"/", "a">>, <<"/", "a", "b">>, <<"/", "b">>, <<".">>, <<".", "b">>}

DriveLabels == {<<>>, <<"VOL">>}

VARIABLES volIn, volOut

volumeVars == <<volIn, volOut>>

\* The directory a path text names.
DirOf(path) ==
    <<IF path # <<>> /\ Head(path) = "/" THEN "/" ELSE ".">>
      \o SelectSeq(path, LAMBDA t : t # "/")

RECURSIVE rstripSep(_)
rstripSep(s) ==
    IF s # <<>> /\ s[Len(s)] = "/" THEN rstripSep(SubSeq(s, 1, Len(s) - 1)) ELSE s

\* os.path.split(path)[0]: the text up to the last separator, without its
\* trailing separators unless it is separators only.
split_head(path) ==
    LET seps == {k \in 1..Len(path) : path[k] = "/"}
        i == IF seps = {} THEN 0 ELSE CHOOSE k \in seps : \A j \in seps : j <= k
        head == SubSeq(path, 1, i)
    IN  IF rstripSep(head) = <<>> THEN head ELSE rstripSep(head)

\* os.path.exists(os.path.join(folder, '.volumelabel'))
volumelabel_exists(folder, files) == DirOf(folder) \in files

\* f.readline().strip() of the .volumelabel file of a directory.
first_line(dir) == <<"label of">> \o dir

\* GetVolumeLabel(folder): the label, or the exception; volumeLabelFilename
\* is only bound inside the 'if (not volumeLabel)' block.
GetVolumeLabel(in) ==
    LET volumeLabel == IF in.platform = "win32" THEN in.drive ELSE <<>>
        head == split_head(in.folder)
        volumeLabelFilename ==
            IF volumelabel_exists(in.folder, in.files) THEN in.folder
            ELSE IF head # <<>> /\ volumelabel_exists(head, in.files) THEN head
            ELSE <<>>
    IN  IF volumeLabel # <<>> THEN <<"UnboundLocalError", <<>>>>
        ELSE IF volumeLabelFilename # <<>>
             THEN <<"ok", first_line(DirOf(volumeLabelFilename))>>
             ELSE <<"ok", volumeLabel>>

VolumeInit ==
    /\ volIn \in [platform : {"linux", "win32"}, drive : DriveLabels,
                  folder : VolumeFolders, files : SUBSET VolumeDirs]
    /\ volIn.platform = "linux" => volIn.drive = <<>>
    /\ volOut = <<"pending", <<>>>>

Volume ==
    /\ volOut[1] = "pending"
    /\ volOut' = GetVolumeLabel(volIn)
    /\ UNCHANGED volIn

VolumeIdle ==
    /\ volIn = [platform |-> "linux", drive |-> <<>>, folder |-> <<"b">>, files |-> {}]
    /\ volOut = <<"idle", <<>>>>

\* ---- one use of PyHelpers ----

helpVars == <<tempVars, durationVars, nameVars, volumeVars>>

HelpersInit ==
    \/ TempInit /\ DurationIdle /\ NameIdle /\ VolumeIdle
    \/ TempIdle /\ DurationInit /\ NameIdle /\ VolumeIdle
    \/ TempIdle /\ DurationIdle /\ NameInit /\ VolumeIdle
    \/ TempIdle /\ DurationIdle /\ NameIdle /\ VolumeInit

HelpersNext ==
    \/ tOp.op # "idle" /\ TempNext /\ UNCHANGED <<durationVars, nameVars, volumeVars>>
    \/ Format /\ UNCHANGED <<tempVars, nameVars, volumeVars>>
    \/ Normalize /\ UNCHANGED <<tempVars, durationVars, volumeVars>>
    \/ Volume /\ UNCHANGED <<tempVars, durationVars, nameVars>>

HelpersIdle == TempIdle /\ DurationIdle /\ NameIdle /\ VolumeIdle

(***************************************************************************)
(* Part 6: SingletonLog                                                     *)
(*                                                                          *)
(* A file handle is a descriptor number, a new one the lowest number not in *)
(* use; handles holds the handles that are open, each with the name of its  *)
(* file.  A handle the log no longer refers to and never closed stays open  *)
(* until the garbage collector finalises it.                                *)
(***************************************************************************)

MaxOpens == 3

MaxChunks == 4

LogNames == {"x.log", "z.log"}

\* The logFilename None.
NoName == "None"

LogTexts == {"a"}

\* '{}:  '.format(str(datetime.datetime.now()))
Stamp == "now:  "

Platforms == {"linux", "win32", "darwin"}

VARIABLES instance, logFilename, logFile, handles, content, platform, lOp

logVars == <<instance, logFilename, logFile, handles, content, platform, lOp>>

\* The fields of the instance and the files the process has open.
LogState == [logFilename |-> logFilename, logFile |-> logFile, handles |-> handles]

\* The descriptor the next open() gets.
NextHandle(hs) ==
    CHOOSE h \in 1..(Cardinality(hs) + 1) :
      /\ ~\E e \in hs : e[1] = h
      /\ \A k \in 1..(h - 1) : \E e \in hs : e[1] = k

IsOpen(h, hs) == \E e \in hs : e[1] = h

NameOf(h, hs) == (CHOOSE e \in hs : e[1] = h)[2]

\* logFile = open(name, 'a' or 'w'): a new handle; the handle logFile held is
\* neither closed nor kept.
open_file(l, name) ==
    [l EXCEPT !.handles = l.handles \cup {<<NextHandle(l.handles), name>>},
              !.logFile = NextHandle(l.handles)]

\* logFile.close()
close_file(l) ==
    [l EXCEPT !.handles = {e \in l.handles : e[1] # l.logFile}]

\* __close()
log_close(l) ==
    IF l.logFile # 0 THEN [close_file(l) EXCEPT !.logFile = 0] ELSE l

\* __open(logFilename)
log_open(l, name) ==
    LET l1 == IF name # l.logFilename
              THEN [log_close(l) EXCEPT !.logFilename = name]
              ELSE l
    IN  IF l1.logFilename # NoName THEN open_file(l1, l1.logFilename) ELSE l1

\* __new__(cls, logFilename): the instance is made, and its file opened, on
\* the first construction only.
log_new(l, name) ==
    IF instance = 0
    THEN IF name = NoName
         THEN [l EXCEPT !.logFilename = name, !.logFile = 0]
         ELSE open_file([l EXCEPT !.logFilename = name], name)
    ELSE l

\* __init__ opening whatever it is given.
initAlways(l, name) == log_open(l, name)

\* __init__(self, logFilename)
log_init(l, name) == IF name # NoName THEN log_open(l, name) ELSE l

\* clear(): close, truncate through a 'w' handle, reopen for appending.
log_clear(l) ==
    IF l.logFilename = NoName THEN [log |-> l, result |-> "AssertionError", truncated |-> FALSE]
    ELSE IF l.logFile = 0 THEN [log |-> l, result |-> "AttributeError", truncated |-> FALSE]
    ELSE LET w == open_file(close_file(l), l.logFilename)
         IN  [log |-> open_file(close_file(w), l.logFilename),
              result |-> "ok", truncated |-> TRUE]

\* write(someText) through a handle that is not in append mode.
writeOver(c, l, chunks) ==
    IF l.logFile # 0
    THEN [c EXCEPT ![NameOf(l.logFile, l.handles)] = chunks]
    ELSE c

\* write(someText): appended to the file of the handle, and flushed.
log_write(c, l, chunks) ==
    IF l.logFile # 0
    THEN [c EXCEPT ![NameOf(l.logFile, l.handles)] = @ \o chunks]
    ELSE c

\* writeline(someText, timestamp)
log_writeline(c, l, text, timestamp) ==
    IF l.logFile # 0
    THEN log_write(log_write(IF timestamp THEN log_write(c, l, <<Stamp>>) ELSE c, l, <<text>>), l, <<"\n">>)
    ELSE c

\* view() taking every other platform for linux.
viewAnywhere(l) ==
    IF l.logFilename = NoName THEN [result |-> "AssertionError", launched |-> "none"]
    ELSE IF platform = "win32" THEN [result |-> "ok", launched |-> "startfile"]
    ELSE [result |-> "ok", launched |-> "xdg-open"]

\* view(): the viewer launched, or the exception raised.
log_view(l) ==
    IF l.logFilename = NoName THEN [result |-> "AssertionError", launched |-> "none"]
    ELSE IF platform = "linux" THEN [result |-> "ok", launched |-> "xdg-open"]
    ELSE IF platform = "win32" THEN [result |-> "ok", launched |-> "startfile"]
    ELSE [result |-> "RuntimeError", launched |-> "none"]

SetLog(l) ==
    /\ logFilename' = l.logFilename
    /\ logFile' = l.logFile
    /\ handles' = l.handles

\* What was called, with what happened, and how the log stood at the call.
LogCalled(op, arg, result, launched) ==
    lOp' = [op |-> op, arg |-> arg, result |-> result, launched |-> launched,
            same |-> arg = logFilename, wasOpen |-> logFile # 0]

\* What the log files hold together.
RECURSIVE Written(_, _)
Written(c, names) ==
    IF names = {} THEN 0
    ELSE LET n == CHOOSE x \in names : TRUE
         IN  Len(c[n]) + Written(c, names \ {n})

Living == instance = 1 /\ lOp.op # "__del__"

LogInit ==
    /\ instance = 0
    /\ logFilename = NoName
    /\ logFile = 0
    /\ handles = {}
    /\ content = [n \in LogNames |-> <<>>]
    /\ platform \in Platforms
    /\ lOp = [op |-> "start", arg |-> NoName, result |-> "ok", launched |-> "none",
              same |-> FALSE, wasOpen |-> FALSE]

\* SingletonLog(logFilename): __new__, then __init__ on what it returned.
LogConstruct ==
    /\ lOp.op # "__del__"
    /\ Cardinality(handles) + 2 <= MaxOpens
    /\ \E name \in LogNames \cup {NoName} :
         /\ SetLog(log_init(log_new(LogState, name), name))
         /\ LogCalled("construct", name, "ok", "none")
    /\ instance' = 1
    /\ UNCHANGED <<content, platform>>

LogOpen ==
    /\ Living
    /\ Cardinality(handles) + 1 <= MaxOpens
    /\ \E name \in LogNames \cup {NoName} :
         /\ SetLog(log_open(LogState, name))
         /\ LogCalled("open", name, "ok", "none")
    /\ UNCHANGED <<instance, content, platform>>

LogClose ==
    /\ Living
    /\ SetLog(log_close(LogState))
    /\ LogCalled("close", NoName, "ok", "none")
    /\ UNCHANGED <<instance, content, platform>>

LogClear ==
    /\ Living
    /\ LET r == log_clear(LogState)
       IN  /\ SetLog(r.log)
           /\ content' = IF r.truncated THEN [content EXCEPT ![logFilename] = <<>>]
                         ELSE content
           /\ LogCalled("clear", NoName, r.result, "none")
    /\ UNCHANGED <<instance, platform>>

LogWrite ==
    /\ Living
    /\ \E text \in LogTexts :
         /\ logFile # 0 => Written(content, LogNames) + 1 <= MaxChunks
         /\ content' = log_write(content, LogState, <<text>>)
         /\ LogCalled("write", text, "ok", "none")
    /\ UNCHANGED <<instance, logFilename, logFile, handles, platform>>

LogWriteline ==
    /\ Living
    /\ \E text \in LogTexts, timestamp \in BOOLEAN :
         /\ logFile # 0 => Written(content, LogNames) + 3 <= MaxChunks
         /\ content' = log_writeline(content, LogState, text, timestamp)
         /\ LogCalled(IF timestamp THEN "writeline" ELSE "writeline-bare", text, "ok", "none")
    /\ UNCHANGED <<instance, logFilename, logFile, handles, platform>>

LogView ==
    /\ Living
    /\ LET r == log_view(LogState)
       IN  LogCalled("view", NoName, r.result, r.launched)
    /\ UNCHANGED <<instance, logFilename, logFile, handles, content, platform>>

\* __del__: the instance is torn down.
LogDel ==
    /\ Living
    /\ SetLog(log_close(LogState))
    /\ LogCalled("__del__", NoName, "ok", "none")
    /\ UNCHANGED <<instance, content, platform>>

\* The garbage collector finalises a file object nothing refers to, which
\* closes its handle.
Finalise ==
    /\ \E e \in handles :
         /\ e[1] # logFile
         /\ handles' = handles \ {e}
    /\ LogCalled("finalise", NoName, "ok", "none")
    /\ UNCHANGED <<instance, logFilename, logFile, content, platform>>

LogNext ==
    \/ LogConstruct
    \/ LogOpen
    \/ LogClose
    \/ LogClear
    \/ LogWrite
    \/ LogWriteline
    \/ LogView
    \/ LogDel
    \/ Finalise

\* No log.
LogIdle ==
    /\ instance = 0
    /\ logFilename = NoName
    /\ logFile = 0
    /\ handles = {}
    /\ content = [n \in LogNames |-> <<>>]
    /\ platform = "linux"
    /\ lOp = [op |-> "idle", arg |-> NoName, result |-> "ok", launched |-> "none",
              same |-> FALSE, wasOpen |-> FALSE]

(***************************************************************************)
(* Part 7: QOverrideCursor                                                  *)
(***************************************************************************)

MaxCursors == 3

CursorIds == 1..MaxCursors

\* Qt.BusyCursor (QBusyCursor) and Qt.WaitCursor (QWaitCursor).
CursorShapes == {"BusyCursor", "WaitCursor"}

VARIABLES cursors, overrideStack, cOp

cursorVars == <<cursors, overrideStack, cOp>>

\* An object not made yet.
NoCursor ==
    [phase |-> "none", shape |-> "BusyCursor", with |-> FALSE,
     needCleanup |-> FALSE, sets |-> 0, restores |-> 0]

\* QApplication.restoreOverrideCursor(): the top of the stack is dropped.
restoreOverrideCursor(stack) ==
    IF stack = <<>> THEN stack ELSE SubSeq(stack, 1, Len(stack) - 1)

\* __cleanup() leaving __needCleanup set.
cleanupKeepingFlag(c, stack) ==
    IF c.needCleanup
    THEN [cursor |-> [c EXCEPT !.restores = @ + 1],
          stack  |-> restoreOverrideCursor(stack)]
    ELSE [cursor |-> c, stack |-> stack]

\* __cleanup()
cleanup(c, stack) ==
    IF c.needCleanup
    THEN [cursor |-> [c EXCEPT !.restores = @ + 1, !.needCleanup = FALSE],
          stack  |-> restoreOverrideCursor(stack)]
    ELSE [cursor |-> c, stack |-> stack]

CursorCalled(op, o, raised) == cOp' = [op |-> op, o |-> o, raised |-> raised]

CursorInit ==
    /\ cursors = [o \in CursorIds |-> NoCursor]
    /\ overrideStack = <<>>
    /\ cOp = [op |-> "start", o |-> 0, raised |-> FALSE]

\* QBusyCursor() or QWaitCursor(), as the subject of a with statement or
\* kept in a variable: __init__ through the subclass.
CursorCreate ==
    \E o \in CursorIds, shape \in CursorShapes, with \in BOOLEAN :
      /\ cursors[o].phase = "none"
      /\ \A k \in 1..(o - 1) : cursors[k].phase # "none"
      /\ cursors' = [cursors EXCEPT ![o] =
                       [phase |-> "created", shape |-> shape, with |-> with,
                        needCleanup |-> TRUE, sets |-> 1, restores |-> 0]]
      /\ overrideStack' = Append(overrideStack, shape)
      /\ CursorCalled("__init__", o, FALSE)

\* __enter__: the body of the with statement starts.
CursorEnter ==
    \E o \in CursorIds :
      /\ cursors[o].phase = "created" /\ cursors[o].with
      /\ cursors' = [cursors EXCEPT ![o].phase = "entered"]
      /\ CursorCalled("__enter__", o, FALSE)
      /\ UNCHANGED overrideStack

\* __exit__: the body ended, normally or by an exception, which __exit__
\* lets through.
CursorExit ==
    \E o \in CursorIds, raised \in BOOLEAN :
      /\ cursors[o].phase = "entered"
      /\ LET r == cleanup(cursors[o], overrideStack)
         IN  /\ cursors' = [cursors EXCEPT ![o] = [r.cursor EXCEPT !.phase = "exited"]]
             /\ overrideStack' = r.stack
      /\ CursorCalled("__exit__", o, raised)

\* __del__: the last reference is gone, after the with statement or when the
\* variable is.
CursorDel ==
    \E o \in CursorIds :
      /\ \/ cursors[o].phase = "exited"
         \/ cursors[o].phase = "created" /\ ~cursors[o].with
      /\ LET r == cleanup(cursors[o], overrideStack)
         IN  /\ cursors' = [cursors EXCEPT ![o] = [r.cursor EXCEPT !.phase = "gone"]]
             /\ overrideStack' = r.stack
      /\ CursorCalled("__del__", o, FALSE)

CursorNext ==
    \/ CursorCreate
    \/ CursorEnter
    \/ CursorExit
    \/ CursorDel

\* No override cursor.
CursorIdle ==
    /\ cursors = [o \in CursorIds |-> NoCursor]
    /\ overrideStack = <<>>
    /\ cOp = [op |-> "idle", o |-> 0, raised |-> FALSE]

(***************************************************************************)
(* Part 8: validators together                                              *)
(*                                                                          *)
(* The flag methods of one validator on their own, and two validators on    *)
(* one control with the WidgetValidators collection of the form.            *)
(***************************************************************************)

\* ---- the flags of one validator ----

VARIABLES fFlags, fOp

flagVars == <<fFlags, fOp>>

FlagsInit ==
    /\ fFlags = AllFlags
    /\ fOp = [op |-> "__init__", arg |-> 0, before |-> 0]

FlagsCalled(op, arg, v) ==
    /\ fFlags' = v.flags
    /\ fOp' = [op |-> op, arg |-> arg, before |-> fFlags]

FlagsAdd == \E flags \in FlagValues : FlagsCalled("addFlags", flags, addFlags([flags |-> fFlags], flags))

FlagsRemove == \E flags \in FlagValues : FlagsCalled("removeFlags", flags, removeFlags([flags |-> fFlags], flags))

FlagsSet == \E flags \in FlagValues : FlagsCalled("setFlags", flags, setFlags([flags |-> fFlags], flags))

FlagsNext == fOp.op # "idle" /\ (FlagsAdd \/ FlagsRemove \/ FlagsSet)

FlagsIdle ==
    /\ fFlags = 0
    /\ fOp = [op |-> "idle", arg |-> 0, before |-> 0]

\* ---- two validators on one control, and the collection ----

MaxTrail == 4

Members == {1, 2}

VARIABLES gStyle, gPre, gStart, gTrail, validators, gOp

groupVars == <<gStyle, gPre, gStart, gTrail, validators, gOp>>

\* Validator i as its methods see it.
Member(i, style, pres) ==
    [flags |-> AllFlags, pre |-> pres[i], control |-> [styleSheet |-> style]]

\* insert(idx, obj): the assert names AbstractWidgetValidator, which no
\* module defines, so evaluating it raises NameError before the list is
\* touched.
insert(vs, idx, obj) == [validators |-> vs, result |-> "NameError"]

\* MutableSequence.append(obj): self.insert(len(self), obj)
append(vs, obj) == insert(vs, Len(vs), obj)

\* clearHighlights(): clearHighlight() of every member, in list order.
RECURSIVE clearHighlights(_, _, _)
clearHighlights(vs, style, pres) ==
    IF vs = <<>> THEN [style |-> style, pres |-> pres]
    ELSE LET v == clearHighlight(Member(Head(vs), style, pres))
         IN  clearHighlights(Tail(vs), v.control.styleSheet,
                             [pres EXCEPT ![Head(vs)] = v.pre])

GroupCalled(op, i, idx, result) ==
    gOp' = [op |-> op, i |-> i, idx |-> idx, result |-> result, len |-> Len(validators)]

\* Two validators made on one control with style sheet S, and an empty
\* WidgetValidators.
GroupInit ==
    /\ gStart \in UserStyles
    /\ gStyle = gStart
    /\ gPre = [i \in Members |-> PyInt(0)]
    /\ gTrail = <<>>
    /\ validators = <<>>
    /\ gOp = [op |-> "__init__", i |-> 0, idx |-> 0, result |-> "ok", len |-> 0]

GroupSetHighlight ==
    \E i \in Members :
      /\ Len(gTrail) < MaxTrail
      /\ LET v == setHighlight(Member(i, gStyle, gPre))
         IN  /\ gStyle' = v.control.styleSheet
             /\ gPre' = [gPre EXCEPT ![i] = v.pre]
      /\ gTrail' = Append(gTrail, <<"setHighlight", i>>)
      /\ GroupCalled("setHighlight", i, 0, "ok")
      /\ UNCHANGED <<gStart, validators>>

GroupClearHighlight ==
    \E i \in Members :
      /\ Len(gTrail) < MaxTrail
      /\ LET v == clearHighlight(Member(i, gStyle, gPre))
         IN  /\ gStyle' = v.control.styleSheet
             /\ gPre' = [gPre EXCEPT ![i] = v.pre]
      /\ gTrail' = Append(gTrail, <<"clearHighlight", i>>)
      /\ GroupCalled("clearHighlight", i, 0, "ok")
      /\ UNCHANGED <<gStart, validators>>

GroupInsert ==
    \E i \in Members, idx \in 0..Len(validators) :
      LET r == insert(validators, idx, i)
      IN  /\ validators' = r.validators
          /\ GroupCalled("insert", i, idx, r.result)
          /\ UNCHANGED <<gStyle, gPre, gStart, gTrail>>

GroupAppend ==
    \E i \in Members :
      LET r == append(validators, i)
      IN  /\ validators' = r.validators
          /\ GroupCalled("append", i, Len(validators), r.result)
          /\ UNCHANGED <<gStyle, gPre, gStart, gTrail>>

GroupClearHighlights ==
    /\ LET r == clearHighlights(validators, gStyle, gPre)
       IN  /\ gStyle' = r.style
           /\ gPre' = r.pres
    /\ GroupCalled("clearHighlights", 0, 0, "ok")
    /\ UNCHANGED <<gStart, gTrail, validators>>

GroupNext ==
    /\ gOp.op # "idle"
    /\ \/ GroupSetHighlight
       \/ GroupClearHighlight
       \/ GroupInsert
       \/ GroupAppend
       \/ GroupClearHighlights

GroupIdle ==
    /\ gStart = ""
    /\ gStyle = ""
    /\ gPre = [i \in Members |-> PyInt(0)]
    /\ gTrail = <<>>
    /\ validators = <<>>
    /\ gOp = [op |-> "idle", i |-> 0, idx |-> 0, result |-> "ok", len |-> 0]

togetherVars == <<flagVars, groupVars>>

TogetherInit ==
    \/ FlagsInit /\ GroupIdle
    \/ FlagsIdle /\ GroupInit

TogetherNext ==
    \/ FlagsNext /\ UNCHANGED groupVars
    \/ GroupNext /\ UNCHANGED flagVars

TogetherIdle == FlagsIdle /\ GroupIdle

\* ---- the specifications ----

restVars == <<helpVars, logVars, cursorVars, togetherVars>>

vars == <<listVars, connVars, validVars, recentVars, restVars>>

\* The parts below the recent files are not in use.
RestIdle == HelpersIdle /\ LogIdle /\ CursorIdle /\ TogetherIdle

\* No list controller: an empty list widget nobody touches.
ListIdle ==
    /\ items = <<>>
    /\ heap = [a \in Addrs |-> 0]
    /\ currentRow = -1
    /\ selected = None
    /\ editing = None
    /\ buttons = ButtonsFor(0, -1)
    /\ lastOp = "init"
    /\ outcome = "ok"
    /\ log = <<>>
    /\ pre = NoSnapshot
    /\ onNewListItem = FALSE

Init == ListInit /\ ConnInit /\ ValidIdle /\ RecentIdle /\ RestIdle

Next == ListNext /\ UNCHANGED <<connVars, validVars, recentVars, restVars>>

Spec == Init /\ [][Next]_vars

InitConn == ConnInit /\ ListIdle /\ ValidIdle /\ RecentIdle /\ RestIdle

NextConn == ConnNext /\ UNCHANGED <<listVars, validVars, recentVars, restVars>>

SpecConn == InitConn /\ [][NextConn]_vars

\* One binding of any kind, configuration and accepted attribute value, its
\* control fresh or already used, and the transfers and user edits on it.
BindInit ==
    \E kind \in Kinds, v \in AttrValues, flags \in GroupFlags :
      \E cfg \in Configs(kind) :
        \E w \in {NewControl(kind, cfg)} \cup UserStates(kind, NewControl(kind, cfg)) :
          /\ ConnectAsserts(kind, v)
          /\ connectors = <<[kind |-> kind, key |-> 1, flags |-> flags]>>
          /\ data = [k \in Keys |-> IF k = 0 THEN PyInt(0) ELSE IF k = 1 THEN v ELSE NoAttr]
          /\ widgets = [k \in Keys |-> IF k = 1 THEN [kind |-> kind, w |-> w] ELSE NoWidget]
          /\ connOp = [op |-> "add", g |-> 0]
          /\ connOutcome = "ok"
          /\ attempt = [kind |-> kind, t |-> TypeOf(v)]
          /\ visited = <<>>
          /\ pushed = NoPush

InitBind == BindInit /\ ListIdle /\ ValidIdle /\ RecentIdle /\ RestIdle

NextBind == (TransferTo \/ TransferFrom \/ UserEdit) /\ UNCHANGED <<listVars, validVars, recentVars, restVars>>

SpecBind == InitBind /\ [][NextBind]_vars

\* One validator on one control, its methods, and the control's user.
InitValid == ValidInit /\ ListIdle /\ ConnInit /\ RecentIdle /\ RestIdle

NextValid == ValidNext /\ UNCHANGED <<listVars, connVars, recentVars, restVars>>

SpecValid == InitValid /\ [][NextValid]_vars

\* The windows of one application, their recent-files menus and the setting
\* they share.
InitRecent == RecentInit /\ ListIdle /\ ConnInit /\ ValidIdle /\ RestIdle

NextRecent == RecentNext /\ UNCHANGED <<listVars, connVars, validVars, restVars>>

SpecRecent == InitRecent /\ [][NextRecent]_vars

\* One use of the helpers of PyHelpers: a temporary-files list and its files,
\* or one duration formatted, or one file name normalised, or one volume
\* label looked up.
PartsIdle == ListIdle /\ ConnInit /\ ValidIdle /\ RecentIdle

partsVars == <<listVars, connVars, validVars, recentVars>>

InitHelpers == HelpersInit /\ PartsIdle /\ LogIdle /\ CursorIdle /\ TogetherIdle

NextHelpers == HelpersNext /\ UNCHANGED <<partsVars, logVars, cursorVars, togetherVars>>

SpecHelpers == InitHelpers /\ [][NextHelpers]_vars

\* The log of one process on one platform: constructions, the methods of the
\* instance, the garbage collector, and the teardown.
InitLog == LogInit /\ PartsIdle /\ HelpersIdle /\ CursorIdle /\ TogetherIdle

NextLog == LogNext /\ UNCHANGED <<partsVars, helpVars, cursorVars, togetherVars>>

SpecLog == InitLog /\ [][NextLog]_vars

\* The override cursors of one application.
InitCursor == CursorInit /\ PartsIdle /\ HelpersIdle /\ LogIdle /\ TogetherIdle

NextCursor == CursorNext /\ UNCHANGED <<partsVars, helpVars, logVars, togetherVars>>

SpecCursor == InitCursor /\ [][NextCursor]_vars

\* The flag methods of one validator, or two validators on one control and
\* the collection that holds the validators of a form.
InitTogether == TogetherInit /\ PartsIdle /\ HelpersIdle /\ LogIdle /\ CursorIdle

NextTogether == TogetherNext /\ UNCHANGED <<partsVars, helpVars, logVars, cursorVars>>

SpecTogether == InitTogether /\ [][NextTogether]_vars

\* The list widget in the hands of the controller alone: the seven buttons,
\* clicked only while enabled, the user's selection changes and edits, and
\* the application's changes to the attached data; the parent leaves the
\* rows of the list widget alone.
ListOwnNext ==
    \/ ClickNew
    \/ ClickCopy
    \/ ClickDelete
    \/ ClickTop
    \/ ClickUp
    \/ ClickDown
    \/ ClickBottom
    \/ SelectRow
    \/ EditText
    \/ MutateData

NextOwn == ListOwnNext /\ UNCHANGED <<connVars, validVars, recentVars, restVars>>

SpecOwn == Init /\ [][NextOwn]_vars

(***************************************************************************)
(* Claims about QOrderedEditableList                                        *)
(***************************************************************************)

Completed(op) == lastOp = op /\ outcome = "ok"
CompletedHandler == lastOp \in Handlers /\ outcome = "ok"

Moves == {"MoveTop", "MoveUp", "MoveDown", "MoveBottom"}

Count(seq, x) == Cardinality({i \in 1..Len(seq) : seq[i] = x})

Min(a, b) == IF a < b THEN a ELSE b
Max(a, b) == IF a > b THEN a ELSE b

C2_DeleteOfSoleItemChangesNothing ==
    (lastOp = "Delete" /\ Len(pre.items) = 1) =>
        /\ items = pre.items
        /\ currentRow = pre.cur
        /\ selected = pre.sel
        /\ Count(log, "emit") = 0

\* Delete has been clicked on a one-item list whose item was selected.
C2_Witness ==
    lastOp = "Delete" /\ Len(pre.items) = 1 /\ pre.cur = 0 /\ outcome # "ok"

\* C3: Delete on a list of exactly one item ends with the error dialog shown.
C3_DeleteOfSoleItemShowsDialog ==
    (lastOp = "Delete" /\ Len(pre.items) = 1) => outcome = "ErrorDialog"

\* C4: a handler that ran to completion emitted listChanged exactly once, as
\* its last act, right after recomputing the buttons, with the list mutation
\* and the selection before that; a handler that never touched the list, or
\* that did not complete, emitted none.
C4_OneEmitAfterStateSettles ==
    lastOp \in Handlers =>
        LET n == Len(log)
            lastOf(ev) == CHOOSE i \in 0..n :
                              /\ (i > 0 => log[i] = ev)
                              /\ \A j \in (i + 1)..n : log[j] # ev
        IN  IF outcome = "ok"
            THEN /\ Count(log, "emit") = 1
                 /\ log[n] = "emit"
                 /\ log[n - 1] = "buttons"
                 /\ lastOf("mutate") > 0
                 /\ lastOf("select") > lastOf("mutate")
                 /\ lastOf("select") < n - 1
            ELSE Count(log, "emit") = 0
    /\ (lastOp \in Handlers /\ Count(log, "mutate") = 0) => Count(log, "emit") = 0

\* A delete of one of several items completed and emitted.
C4_Witness ==
    Completed("Delete") /\ Len(items) = 2 /\ Count(log, "emit") = 1

\* The row a completed move left the moved item at, per the claim.
ClaimedRow(op, r, n) ==
    CASE op = "MoveTop" -> 0
      [] op = "MoveUp" -> r - 1
      [] op = "MoveDown" -> r + 1
      [] op = "MoveBottom" -> n - 1

\* The same, with the row kept inside the list.
ClampedRow(op, r, n) == Max(0, Min(n - 1, ClaimedRow(op, r, n)))

MovedTo(row) ==
    LET r == pre.cur
        n == Len(pre.items)
    IN  /\ Len(items) = n
        /\ row >= 0 /\ row < n
        /\ RowItem(items, row) = RowItem(pre.items, r)
        /\ RemoveAt(items, row) = RemoveAt(pre.items, r)
        /\ currentRow = row
        /\ selected = RowItem(pre.items, r).id
        /\ heap = pre.heap

\* C5 as stated: a completed move of the item at row r of n leaves it at row
\* 0 (top), r-1 (up), r+1 (down), n-1 (bottom), everything else as it was.
C5_MovePlacesItemAtStatedRow ==
    (lastOp \in Moves /\ outcome = "ok") =>
        MovedTo(ClaimedRow(lastOp, pre.cur, Len(pre.items)))

\* C5 amended: the same with the target row kept inside the list, so that
\* MoveUp of row 0 and MoveDown of the last row leave the item where it was.
C5_MovePlacesItemAtClampedRow ==
    (lastOp \in Moves /\ outcome = "ok") =>
        MovedTo(ClampedRow(lastOp, pre.cur, Len(pre.items)))

\* MoveUp has moved the last of three items to the middle row.
C5_Witness ==
    /\ Completed("MoveUp")
    /\ Len(items) = 3
    /\ pre.cur = 2
    /\ currentRow = 1
    /\ IdSeq(items) # IdSeq(pre.items)

\* C6: a completed Copy appends one item with the selected item's text and,
\* when that item has data, a new data object of equal value that no earlier
\* item refers to; the earlier items, their data and their order are as
\* before, and the new item is current and selected.
C6_CopyAppendsDeepCopy ==
    Completed("Copy") =>
        LET n == Len(pre.items)
            src == RowItem(pre.items, pre.cur)
            new == items[Len(items)]
        IN  /\ Len(items) = n + 1
            /\ SubSeq(items, 1, n) = pre.items
            /\ new.text = src.text
            /\ new.id \notin UsedIds(pre.items)
            /\ (src.ref = None) = (new.ref = None)
            /\ src.ref # None =>
                  /\ new.ref \notin UsedAddrs(pre.items)
                  /\ heap[new.ref] = pre.heap[src.ref]
            /\ \A a \in UsedAddrs(pre.items) : heap[a] = pre.heap[a]
            /\ currentRow = n
            /\ selected = new.id

\* An item with text "new" and a data object of value 1 has been copied.
C6_Witness ==
    /\ Completed("Copy")
    /\ items[Len(items)].text = newItemDefaultString
    /\ items[Len(items)].ref # None
    /\ heap[items[Len(items)].ref] = 1


(***************************************************************************)
(* Claims about WidgetDataConnectors                                        *)
(***************************************************************************)

\* Bit n is set in both masks, for some n.
SharesBit(a, b) ==
    \E n \in 0..3 : (a \div (2 ^ n)) % 2 = 1 /\ (b \div (2 ^ n)) % 2 = 1

\* The connectors a bulk transfer with filter g is to handle.
TakesPart(c, g) == g = 0 \/ SharesBit(c.flags, g)

KeysOf(cs) == [i \in 1..Len(cs) |-> cs[i].key]

\* C7: a bulk transfer with filter g visits, in list order, exactly the
\* connectors that take part (all of them when g = 0, else those whose
\* groupFlags share a bit with g), transfers each of them, and leaves the
\* control and the attribute of every other connector as they were.
C7_TransfersFilteredInListOrder ==
    [][\A g \in GroupFilters :
         (connOp'.op \in {"to", "from"} /\ connOp'.g = g) =>
            /\ visited' = KeysOf(SelectSeq(connectors, LAMBDA c : TakesPart(c, g)))
            /\ \A i \in 1..Len(connectors) :
                 LET c == connectors[i]
                     k == c.key
                 IN  IF TakesPart(c, g)
                     THEN IF connOp'.op = "to"
                          THEN widgets'[k].w = ToWidget(c.kind, widgets[k].w, data[k])
                          ELSE data'[k] = FromWidget(c.kind, widgets[k].w, data[k])
                     ELSE data'[k] = data[k] /\ widgets'[k] = widgets[k]
      ]_vars

\* A push with filter 1 over a connector with flags 2 followed by one with
\* flags 3 has visited the second only.
C7_Witness ==
    /\ connOp = [op |-> "to", g |-> 1]
    /\ Len(connectors) = 2
    /\ connectors[1].flags = 2
    /\ connectors[2].flags = 3
    /\ visited = <<connectors[2].key>>

\* The value a binding round-trips, per the amended C8: any value for a
\* check box or a table item; a text no longer than maxLength for a line
\* edit; a text without carriage returns for a plain-text edit; one of the
\* entries for a combo box; one of the listed values, with mutually
\* exclusive buttons, for a radio group; a value inside the range for a
\* spin box.
RoundTrips(kind, w, v) ==
    CASE kind \in {"check", "table"} -> TRUE
      [] kind = "line" -> Len(ValOf(v)) <= w.cfg
      [] kind = "plain" -> \A i \in 1..Len(ValOf(v)) : ValOf(v)[i] # CR
      [] kind = "combo" -> \E i \in 1..Len(w.cfg) : w.cfg[i] = ValOf(v)
      [] kind = "radio" ->
            /\ w.cfg.exclusive
            /\ \E i \in 1..Len(w.cfg.values) : PyEq(v, w.cfg.values[i])
      [] kind = "spin" -> AsInt(v) >= w.cfg.min /\ AsInt(v) <= w.cfg.max
      [] OTHER -> TRUE

C9_TransfersTouchOnlyTheirTarget ==
    [][connOp'.op \in {"to", "from"} =>
         LET seen == {visited'[i] : i \in 1..Len(visited')}
         IN  /\ connectors' = connectors
             /\ \A k \in Keys :
                  /\ widgets'[k].kind = widgets[k].kind
                  /\ widgets'[k].w.cfg = widgets[k].w.cfg
                  /\ k \notin seen => widgets'[k] = widgets[k] /\ data'[k] = data[k]
             /\ connOp'.op = "to" => data' = data
             /\ connOp'.op = "from" => widgets' = widgets
      ]_vars

\* A pull with a filter has visited one of two connectors, a check box
\* whose attribute it has changed from the bound True to False.
C9_Witness ==
    /\ connOp.op = "from"
    /\ Len(connectors) = 2
    /\ Len(visited) = 1
    /\ widgets[visited[1]].kind = "check"
    /\ data[visited[1]] = PyBool(FALSE)

\* The attribute type the claim pairs with each kind of control.
Mismatch(kind, t) ==
    \/ kind = "check" /\ t # "bool"
    \/ kind \in {"combo", "line", "plain"} /\ t # "str"
    \/ kind = "spin" /\ t # "int"

\* C10: a connect() given an attribute whose type does not match the
\* control (bool for a check box, str for a text control, int for a spin
\* box) fails with an assertion, so the registry never holds such a binding.
C10_MismatchedBindingAsserts ==
    /\ (connOp.op \in {"add", "reconnect"} /\ Mismatch(attempt.kind, attempt.t)) =>
            connOutcome = "AssertionError"
    /\ \A i \in 1..Len(connectors) :
            ~Mismatch(connectors[i].kind, TypeOf(data[connectors[i].key]))

(***************************************************************************)
(* Claims about the field validators                                        *)
(***************************************************************************)

\* The call that has just returned (or raised) is isValid().
ValidityAsked == vOp = "isValid"

\* The validator holds a captured style: isHighlighted().
HighlightedNow == preExistingStyle # PyInt(0)
HighlightedBefore == vBefore.pre # PyInt(0)

\* C11: with FLAG_DISABLED_WIDGET_ALWAYS_VALID set and the control disabled,
\* isValid() returns True whatever the control holds and whatever the other
\* flags are, sets no error highlight and shows no message.
C11_DisabledControlIsValid ==
    (/\ ValidityAsked
     /\ HasFlag(vBefore.flags, FLAG_DISABLED_WIDGET_ALWAYS_VALID)
     /\ ~vBefore.control.enabled)
    => /\ vResult = "True"
       /\ ~vShown
       /\ HighlightedNow => HighlightedBefore
       /\ control.styleSheet = ERROR_BACKGROUND_STYLE
              => vBefore.control.styleSheet = ERROR_BACKGROUND_STYLE

\* A disabled control that fails its check, with every flag set.
C11_Witness ==
    /\ ValidityAsked
    /\ vBefore.flags = AllFlags
    /\ ~vBefore.control.enabled
    /\ ~Check(vKind, control)
    /\ vResult = "True"

\* C12: over setHighlight(), clearHighlight() and isValid() calls the style
\* captured is the control's style at the first highlight since the last
\* clear, clearHighlight() restores exactly that style (the empty one too)
\* and resets isHighlighted(), and clearHighlight() on a validator that is
\* not highlighted leaves the style alone.
C12_HighlightKeepsAndRestoresStyle ==
    /\ HighlightedNow => preExistingStyle = PyStr(userStyle)
    /\ ~HighlightedNow => control.styleSheet = userStyle
    /\ (vOp = "setHighlight" /\ HighlightedBefore) => preExistingStyle = vBefore.pre
    /\ (vOp = "setHighlight" /\ ~HighlightedBefore)
           => preExistingStyle = PyStr(vBefore.control.styleSheet)
    /\ (vOp = "clearHighlight" /\ HighlightedBefore)
           => ~HighlightedNow /\ control.styleSheet = ValOf(vBefore.pre)
    /\ (vOp = "clearHighlight" /\ ~HighlightedBefore)
           => ~HighlightedNow /\ control.styleSheet = vBefore.control.styleSheet

\* A highlight over an empty style sheet is cleared.
C12_Witness ==
    /\ vOp = "clearHighlight"
    /\ HighlightedBefore
    /\ vBefore.control.styleSheet = ERROR_BACKGROUND_STYLE
    /\ userStyle = ""
    /\ control.styleSheet = ""

\* C13: isValid() leaves the control's content and enabled state as they
\* were; it changes at most the style sheet, the cached style and whether a
\* message was shown.
C13_ValidationLeavesContent ==
    ValidityAsked
    => /\ ContentOf(control) = ContentOf(vBefore.control)
       /\ control.enabled = vBefore.control.enabled
       /\ vFlags = vBefore.flags

\* A failed check that cleared an old highlight, set a new one and showed
\* the message.
C13_Witness ==
    /\ ValidityAsked
    /\ HighlightedBefore
    /\ HasFlag(vFlags, FLAG_CLEAR_HIGHLIGHT_BEFORE_VALIDATING)
    /\ vResult = "False"
    /\ vShown
    /\ HighlightedNow

\* The check failed on a control the disabled-flag does not excuse.
CheckFailed ==
    /\ ~(HasFlag(vFlags, FLAG_DISABLED_WIDGET_ALWAYS_VALID) /\ ~control.enabled)
    /\ ~Check(vKind, control)

\* C14: the four flags act independently in isValid(): an existing
\* highlight is cleared first iff FLAG_CLEAR_HIGHLIGHT_BEFORE_VALIDATING is
\* set; on a failed check the highlight is applied iff
\* FLAG_HIGHLIGHT_WIDGETS_WITH_ERRORS is set and the message is shown iff
\* FLAG_SHOW_ERROR_MESSAGE is set; a failed check returns False whatever the
\* flags, and isValid() never raises.
C14_FlagsActIndependently ==
    ValidityAsked
    => LET applied == CheckFailed /\ HasFlag(vFlags, FLAG_HIGHLIGHT_WIDGETS_WITH_ERRORS)
           kept == HighlightedBefore
                       /\ ~HasFlag(vFlags, FLAG_CLEAR_HIGHLIGHT_BEFORE_VALIDATING)
       IN  /\ HighlightedNow <=> (applied \/ kept)
           /\ applied => control.styleSheet = ERROR_BACKGROUND_STYLE
           /\ vShown <=> (CheckFailed /\ HasFlag(vFlags, FLAG_SHOW_ERROR_MESSAGE))
           /\ vResult = (IF CheckFailed THEN "False" ELSE "True")

\* What a line edit's text names, and whether it is one bare component.
Names(text) == Resolve(PathParts(text))
SingleComponent(text) == Len(text) = 1 /\ text[1] # SEP
OnSearchPath(text) == findExecutable(text[1]) # <<>>

\* The check each validator is stated to make (blank: the empty text).
StatedCheck(kind, c) ==
    CASE kind = "NotBlank" -> c.text # <<>>
      [] kind = "FileExists" -> c.text # <<>> /\ Names(c.text) = "file"
      [] kind = "FolderExists" -> c.text # <<>> /\ Names(c.text) = "dir"
      [] kind = "ExecutableExists" ->
             \/ Names(c.text) = "file"
             \/ SingleComponent(c.text) /\ OnSearchPath(c.text)
      [] kind = "ListNotEmpty" -> c.count >= 1
      [] kind = "ComboNotEmpty" -> c.count >= 1 /\ c.currentText # ""

\* C15: for an enabled control isValid() returns True exactly when the
\* validator's stated check holds.
C15_ValidExactlyWhenCheckHolds ==
    (ValidityAsked /\ control.enabled)
    => ((vResult = "True") <=> StatedCheck(vKind, control))


(***************************************************************************)
(* Claims about QRecentFiles                                                *)
(***************************************************************************)

\* files without any occurrence of x, the rest in order.
RECURSIVE Without(_, _)
Without(files, x) ==
    IF files = <<>> THEN <<>>
    ELSE IF Head(files) = x THEN Without(Tail(files), x)
    ELSE <<Head(files)>> \o Without(Tail(files), x)

\* The entries of files whose file exists, in order.
RECURSIVE Alive(_)
Alive(files) ==
    IF files = <<>> THEN <<>>
    ELSE IF Head(files) \in existing THEN <<Head(files)>> \o Alive(Tail(files))
    ELSE Alive(Tail(files))

\* The window has made its menu actions.
IsSetUp(w) == w.recentFileActs # <<>>

\* The paths the window's menu shows, top down.
RECURSIVE VisibleData(_)
VisibleData(acts) ==
    IF acts = <<>> THEN <<>>
    ELSE IF Head(acts).visible THEN <<Head(acts).data>> \o VisibleData(Tail(acts))
    ELSE VisibleData(Tail(acts))

\* C16: setCurrentFile(path) leaves the persisted list with path first and
\* only once, the other entries in their previous relative order, and the
\* oldest entries dropped when the list would exceed the window's capacity.
C16_RecordedPathLeadsTheList ==
    [][(rOp'.op = "setCurrentFile" /\ calls' # calls)
       => recentFileList' =
              SubSeq(<<rOp'.arg>> \o Without(recentFileList, rOp'.arg), 1,
                     Min(1 + Len(Without(recentFileList, rOp'.arg)),
                         windows[rOp'.win].maxRecentFiles))]_vars

\* C17: with capacity maxRecentFiles = N the persisted list never has more
\* than N entries, and updateRecentFileActions never addresses a menu slot
\* with an index of N or more.
C17_ListAndSlotsWithinCapacity ==
    \A i \in 1..Len(windows) :
        /\ Len(recentFileList) <= windows[i].maxRecentFiles
        /\ (IsSetUp(windows[i]) /\ i \in rOp.refreshed /\ Len(windows) = 1)
               => rOutcome # "IndexError"

\* C18: after updateRecentFileActions, with n the smaller of the list's
\* length and the capacity, slot i < n is visible, carries the i-th path and
\* is labelled i+1 and the file name; the slots from n to capacity-1 are
\* hidden; the window keeps as many menu actions as its capacity.
C18_SlotsShowTheListPrefix ==
    \A w \in 1..Len(windows) :
      LET win == windows[w]
          n == Min(Len(recentFileList), win.maxRecentFiles)
      IN  /\ IsSetUp(win) => Len(win.recentFileActs) = win.maxRecentFiles
          /\ w \in rOp.refreshed
                 => \A i \in 1..Len(win.recentFileActs) :
                        IF i <= n
                        THEN /\ win.recentFileActs[i].visible
                             /\ win.recentFileActs[i].data = recentFileList[i]
                             /\ win.recentFileActs[i].text =
                                    <<"&", i, recentFileList[i][2]>>
                        ELSE ~win.recentFileActs[i].visible

\* A refreshed menu with shown and hidden slots, two of the shown ones
\* labelled with the same file name.
C18_Witness ==
    \E w \in rOp.refreshed :
        /\ IsSetUp(windows[w])
        /\ windows[w].recentFileActs[1].visible
        /\ windows[w].recentFileActs[2].visible
        /\ windows[w].recentFileActs[1].data # windows[w].recentFileActs[2].data
        /\ windows[w].recentFileActs[1].text[3] = windows[w].recentFileActs[2].text[3]
        /\ ~windows[w].recentFileActs[windows[w].maxRecentFiles].visible

\* C19: removeDeadRecentFiles leaves exactly the entries of the previous
\* list whose file exists, in their previous order.
C19_DeadEntriesDropped ==
    rOp.op = "removeDeadRecentFiles" => recentFileList = Alive(rBefore)

\* Two neighbouring entries were dropped and others kept.
C19_Witness ==
    /\ rOp.op = "removeDeadRecentFiles"
    /\ Len(rBefore) = Len(recentFileList) + 2
    /\ Len(recentFileList) > 0

\* C20: after setCurrentFile, removeDeadRecentFiles or clearRecentFiles has
\* returned, every window that has set up its menu shows the persisted list
\* (its visible slots are the list's prefix); after clearRecentFiles the
\* list is empty and every slot hidden.
C20_EveryWindowShowsTheList ==
    (/\ rOp.op \in {"setCurrentFile", "removeDeadRecentFiles", "clearRecentFiles"}
     /\ rOutcome \in {"ok", "returned early"}
     /\ \A w \in 1..Len(windows) : IsSetUp(windows[w]))
    => /\ \A w \in 1..Len(windows) :
              VisibleData(windows[w].recentFileActs) =
                  SubSeq(recentFileList, 1,
                         Min(Len(recentFileList), windows[w].maxRecentFiles))
       /\ rOp.op = "clearRecentFiles" => recentFileList = <<>>

(***************************************************************************)
(* Claims about PyHelpers                                                   *)
(***************************************************************************)

NamesIn(s) == {s[i] : i \in 1..Len(s)}

\* os.unlink fails on this name: no such file, or one the process may not remove.
UnlinkFails(name, d) == name \notin d \/ name \in locked

\* C21: unlink() (and the destructor, which calls it) tries to delete every
\* listed file, a failure on one file is swallowed and the later files are
\* still tried, the list is empty afterwards and nothing is raised; on a list
\* that is already empty it deletes nothing; clear() empties the list and
\* leaves every file on disk.
C21_UnlinkTriesEveryFileThenEmptiesList ==
    /\ tOp.op \in {"unlink", "__del__"} =>
         /\ ~tOp.raised
         /\ tOp.tried = tBefore.list
         /\ temporaryFilenames = <<>>
         /\ disk = tBefore.disk \ {n \in NamesIn(tBefore.list) : n \notin locked}
         /\ (tBefore.list = <<>> => disk = tBefore.disk)
    /\ tOp.op = "clear" => temporaryFilenames = <<>> /\ disk = tBefore.disk

\* unlink() ran on two files; deleting the first failed and the second is gone.
C21_Witness ==
    /\ tOp.op = "unlink"
    /\ Len(tBefore.list) = 2
    /\ UnlinkFails(tBefore.list[1], tBefore.disk)
    /\ tBefore.list[2] \in tBefore.disk
    /\ tBefore.list[2] \notin disk

Formatted == tdOut[1] \notin {"idle", "pending"}

TwoDigits(n) == <<DigitChars[(n \div 10) + 1], DigitChars[(n % 10) + 1]>>

Hours(td) == td.seconds \div 3600

Minutes(td) == (td.seconds \div 60) % 60

Secs(td) == td.seconds % 60

MMSS(td) == <<":">> \o TwoDigits(Minutes(td)) \o <<":">> \o TwoDigits(Secs(td))

ShortDuration == Formatted /\ tdIn.td.days = 0 /\ tdIn.noZeroDays

FiveSeconds == tdIn.td = [days |-> 0, seconds |-> 5, microseconds |-> 0]

\* C22 as stated: a non-negative duration shorter than a day formats, with
\* noZeroDays=True, as H:MM:SS with the hours unpadded, 5 seconds as 0:00:05.
C22_Stated_ShortDurationIsHMMSS ==
    ShortDuration =>
      /\ tdOut = <<"ok", formatd(Hours(tdIn.td)) \o MMSS(tdIn.td)>>
      /\ FiveSeconds => tdOut[2] = <<"0", ":", "0", "0", ":", "0", "5">>

\* C22: a non-negative duration shorter than a day formats, with
\* noZeroDays=True, as HH:MM:SS with every field padded to two digits;
\* 5 seconds formats as 00:00:05.
C22_ShortDurationIsHHMMSS ==
    ShortDuration =>
      /\ tdOut = <<"ok", TwoDigits(Hours(tdIn.td)) \o MMSS(tdIn.td)>>
      /\ FiveSeconds => tdOut[2] = <<"0", "0", ":", "0", "0", ":", "0", "5">>

C22_Witness == ShortDuration /\ FiveSeconds

\* C23: a duration of one day or more formats without raising as
\* D:HH:MM:SS, D being the number of days (padded to two digits or not).
C23_LongDurationIsDHHMMSS ==
    (Formatted /\ tdIn.td.days >= 1) =>
      /\ tdOut[1] = "ok"
      /\ \E d \in {formatd(tdIn.td.days), zfill(formatd(tdIn.td.days), 2)} :
           tdOut[2] = d \o <<":">> \o TwoDigits(Hours(tdIn.td)) \o MMSS(tdIn.td)

Normalized == nameOut[1] = "ok"

OpenOn(name, file, hs) == file # 0 /\ <<file, name>> \in hs

\* C25: every construction returns the one instance; constructing with a
\* file name other than the current one closes the current log file and
\* leaves the log open on the new file; constructing
\* with no file name leaves the log file and the file name as they were.
C25_ConstructionSharesOneInstance ==
    [][lOp'.op = "construct" =>
         /\ instance' = 1
         /\ (lOp'.arg # NoName /\ lOp'.arg # logFilename) =>
              /\ <<logFile, logFilename>> \notin handles'
              /\ logFilename' = lOp'.arg
              /\ OpenOn(lOp'.arg, logFile', handles')
         /\ lOp'.arg = NoName => UNCHANGED <<logFilename, logFile, handles>>]_vars

\* A construction with another file name while a log file was open.
C25_Witness ==
    /\ lOp.op = "construct"
    /\ lOp.arg # NoName
    /\ ~lOp.same
    /\ lOp.wasOpen
    /\ OpenOn(lOp.arg, logFile, handles)

\* C26: open(name) on a log already open on that name opens and closes
\* nothing and keeps the handle; open(name) with another name closes the old
\* file and opens the new one; open(None) closes the open file and leaves
\* the log without a file.
C26_OpenOnSameNameDoesNothing ==
    [][lOp'.op = "open" =>
         /\ (lOp'.arg = logFilename /\ OpenOn(logFilename, logFile, handles)) =>
              UNCHANGED <<logFile, handles>>
         /\ (lOp'.arg # logFilename /\ lOp'.arg # NoName) =>
              /\ <<logFile, logFilename>> \notin handles'
              /\ OpenOn(lOp'.arg, logFile', handles')
         /\ lOp'.arg = NoName =>
              /\ logFile' = 0
              /\ <<logFile, logFilename>> \notin handles']_vars

\* C27: at most one handle opened by the log is open at any time, and none
\* is after close() or after the teardown.
C27_AtMostOneHandleOpen ==
    /\ Cardinality(handles) <= 1
    /\ lOp.op \in {"close", "__del__"} => handles = {}

Viewed == lOp.op = "view"

ViewOutcome ==
    /\ platform \notin {"linux", "win32"} =>
         lOp.result = "RuntimeError" /\ lOp.launched = "none"
    /\ platform \in {"linux", "win32"} =>
         lOp.result # "RuntimeError" /\ lOp.launched # "none"

\* C29 as stated: view() raises RuntimeError and launches nothing on a
\* platform other than linux and win32, and launches the viewer there.
C29_Stated_ViewByPlatform == Viewed => ViewOutcome

\* C29: view() on a log that has a file name raises RuntimeError and
\* launches nothing on a platform other than linux and win32, and launches
\* the platform's viewer on linux and win32 without that error.
C29_ViewByPlatformOfNamedLog == (Viewed /\ logFilename # NoName) => ViewOutcome

C29_Witness ==
    /\ Viewed
    /\ logFilename # NoName
    /\ platform = "darwin"
    /\ lOp.result = "RuntimeError"

\* C30: writeline(text) with the timestamp, on an open log file, appends the
\* timestamp prefix, the text and a newline to what the file held, and
\* write() and writeline() on a log without a file change no file and raise
\* nothing.
C30_WritelineAppendsOneLine ==
    [][/\ (lOp'.op = "writeline" /\ OpenOn(logFilename, logFile, handles)) =>
            content' = [content EXCEPT ![logFilename] = @ \o <<Stamp, lOp'.arg, "\n">>]
       /\ (lOp'.op \in {"write", "writeline", "writeline-bare"} /\ logFile = 0) =>
            content' = content /\ lOp'.result = "ok"]_vars

\* A line written after earlier content.
C30_Witness ==
    /\ lOp.op = "writeline"
    /\ lOp.wasOpen
    /\ Len(content[logFilename]) > 3
    /\ content[logFilename][1] # Stamp

(***************************************************************************)
(* Claims about QOverrideCursor                                             *)
(***************************************************************************)

RECURSIVE Total(_, _)
Total(f, ids) ==
    IF ids = {} THEN 0
    ELSE LET o == CHOOSE x \in ids : TRUE
         IN  f[o] + Total(f, ids \ {o})

AllGone == \A o \in CursorIds : cursors[o].phase \in {"none", "gone"}

\* C28: an object sets the override cursor once, at construction, and
\* restores it once over its lifetime: at __exit__ for a with statement, the
\* body raising or not, and not again at teardown; at teardown for an object
\* that was only created; once every object is gone there are as many
\* restores as sets, and no override cursor is left.
C28_CursorSetOnceRestoredOnce ==
    /\ \A o \in CursorIds :
         /\ cursors[o].sets = IF cursors[o].phase = "none" THEN 0 ELSE 1
         /\ cursors[o].restores = IF cursors[o].phase \in {"exited", "gone"} THEN 1 ELSE 0
    /\ AllGone =>
         /\ Total([o \in CursorIds |-> cursors[o].restores], CursorIds)
              = Total([o \in CursorIds |-> cursors[o].sets], CursorIds)
         /\ overrideStack = <<>>

\* Both lifetimes ended: an object of a with statement torn down after its
\* body, and an object that was only created.
C28_Witness ==
    /\ cOp.op = "__del__"
    /\ AllGone
    /\ \E o \in CursorIds : cursors[o].phase = "gone" /\ cursors[o].with
    /\ \E o \in CursorIds : cursors[o].phase = "gone" /\ ~cursors[o].with

\* C40: normalising a normalised name changes nothing, also where the removal
\* of a denylisted character has left blanks at an end of the name.
C40_NormalizeIsIdempotent ==
    Normalized => NormalizeFileName(nameOut[2]) = nameOut[2]

(***************************************************************************)
(* Further claims about QRecentFiles                                        *)
(***************************************************************************)

\* C39: the persisted list never holds an empty or missing file name,
\* whatever setCurrentFile was called with and whether or not the window
\* was set up with a title.
C39_NoEmptyNameRecorded ==
    \A k \in 1..Len(recentFileList) : recentFileList[k] # EmptyPath

(***************************************************************************)
(* Further claims about the validators                                      *)
(***************************************************************************)

ClearsAndHighlights ==
    /\ HasFlag(vFlags, FLAG_CLEAR_HIGHLIGHT_BEFORE_VALIDATING)
    /\ HasFlag(vFlags, FLAG_HIGHLIGHT_WIDGETS_WITH_ERRORS)

\* C37: with the clear-before-validating and the highlight-errors flags
\* both set, the validator is highlighted after an isValid() call exactly
\* when the call did not find the control valid, whatever the control held
\* and however it was highlighted before.
C37_HighlightedExactlyWhenInvalid ==
    (vOp = "isValid" /\ ClearsAndHighlights) =>
      (isHighlighted(Validator) <=> vResult # "True")

\* A highlighted control has become valid, and the call has cleared it.
C37_Witness ==
    /\ vOp = "isValid"
    /\ ClearsAndHighlights
    /\ vResult = "True"
    /\ vBefore.called /\ StyleCaptured(vBefore.pre)
    /\ ~isHighlighted(Validator)

\* C32: after removeFlags(f) no bit of f is set and every other bit is as it
\* was, whether or not the bits of f were set before, and a second
\* removeFlags(f) changes nothing.
C32_RemoveFlagsClearsTheBits ==
    fOp.op = "removeFlags" =>
      /\ BitAnd(fFlags, fOp.arg) = 0
      /\ BitAnd(fFlags, BitXor(AllFlags, fOp.arg)) = BitAnd(fOp.before, BitXor(AllFlags, fOp.arg))
      /\ removeFlags([flags |-> fFlags], fOp.arg).flags = fFlags

\* Both validators have highlighted the control and both have then cleared.
BothHighlightedThenCleared ==
    /\ Len(gTrail) = 4
    /\ gTrail[1][1] = "setHighlight" /\ gTrail[2][1] = "setHighlight"
    /\ gTrail[3][1] = "clearHighlight" /\ gTrail[4][1] = "clearHighlight"
    /\ gTrail[1][2] # gTrail[2][2]
    /\ gTrail[3][2] # gTrail[4][2]

\* C36: two validators on one control of style S, both highlighting and then
\* both clearing, in either order: the control has style S again and
\* neither validator is highlighted.
C36_TwoValidatorsRestoreTheStyle ==
    BothHighlightedThenCleared =>
      /\ gStyle = gStart
      /\ \A i \in Members : ~StyleCaptured(gPre[i])

\* C38: insert() and append() of a validator succeed, the collection grows
\* by one and holds the validator at the position given; clearHighlights()
\* leaves no member highlighted.
C38_CollectionTakesValidators ==
    /\ gOp.op \in {"insert", "append"} =>
         /\ gOp.result = "ok"
         /\ Len(validators) = gOp.len + 1
         /\ validators[gOp.idx + 1] = gOp.i
    /\ gOp.op = "clearHighlights" =>
         \A k \in 1..Len(validators) : ~StyleCaptured(gPre[validators[k]])

(***************************************************************************)
(* Further claims about PyHelpers                                           *)
(***************************************************************************)

\* The directory one level up.
ParentDir(dir) == IF Len(dir) > 1 THEN SubSeq(dir, 1, Len(dir) - 1) ELSE dir

\* C31: GetVolumeLabel returns, without raising: on Windows the drive's
\* label when it has one; otherwise the first line of the folder's
\* .volumelabel file when it exists; otherwise that of the file one level up
\* when it exists; otherwise the empty string.
C31_VolumeLabelByPrecedence ==
    volOut[1] \notin {"idle", "pending"} =>
      LET dir == DirOf(volIn.folder)
      IN  volOut = <<"ok",
                     IF volIn.platform = "win32" /\ volIn.drive # <<>> THEN volIn.drive
                     ELSE IF dir \in volIn.files THEN first_line(dir)
                     ELSE IF ParentDir(dir) \in volIn.files THEN first_line(ParentDir(dir))
                     ELSE <<>>>>

(***************************************************************************)
(* Further claims about QOrderedEditableList                                *)
(***************************************************************************)

\* C33: New appends one item carrying the default string; a supplied
\* onNewListItem callback ran exactly once, and before the item was
\* selected; afterwards the new item is selected, current and being edited,
\* and the items that were there before are as they were.
C33_NewAppendsInitialisesThenSelects ==
    lastOp = "New" =>
        LET n == Len(pre.items)
            item == items[n + 1]
        IN  /\ Len(items) = n + 1
            /\ item.text = newItemDefaultString
            /\ SubSeq(items, 1, n) = pre.items
            /\ \A i \in 1..n :
                   pre.items[i].ref # None =>
                       heap[pre.items[i].ref] = pre.heap[pre.items[i].ref]
            /\ Count(log, "callback") = (IF onNewListItem THEN 1 ELSE 0)
            /\ \A i, j \in 1..Len(log) :
                   (log[i] = "callback" /\ log[j] = "select") => i < j
            /\ selected = item.id
            /\ currentRow = n
            /\ editing = item.id
            /\ outcome = "ok"

\* New was clicked on a two-item list whose parent supplied the callback.
C33_Witness ==
    /\ lastOp = "New"
    /\ onNewListItem
    /\ Len(pre.items) = 2
    /\ Count(log, "callback") = 1
    /\ items[3].ref # None
    /\ selected = items[3].id

\* C34: Delete on a list of n > 1 items with row r current removes exactly
\* that item and keeps the others in order, so n - 1 items are left; it runs
\* to completion, and the current and selected row afterwards is r, or
\* n - 2 when the last row was deleted, which is a row of the list; and no
\* handler leaves a list that held an item empty.
C34_DeleteRemovesCurrentKeepsValidRow ==
    /\ (lastOp = "Delete" /\ Len(pre.items) > 1 /\ pre.cur >= 0) =>
           LET n == Len(pre.items)
               r == pre.cur
           IN  /\ outcome = "ok"
               /\ Len(items) = n - 1
               /\ \A i \in 1..(n - 1) :
                      items[i] = pre.items[IF i <= r THEN i ELSE i + 1]
               /\ currentRow = (IF r < n - 1 THEN r ELSE n - 2)
               /\ currentRow \in 0..(Len(items) - 1)
               /\ selected = items[currentRow + 1].id
    /\ (lastOp \in Handlers /\ Len(pre.items) >= 1) => Len(items) >= 1

\* The last of three rows was deleted and the selection moved up to row 1.
C34_Witness ==
    /\ Completed("Delete")
    /\ Len(pre.items) = 3
    /\ pre.cur = 2
    /\ Len(items) = 2
    /\ currentRow = 1

\* C35: while the list changes only through the controller's handlers and
\* the user's selection changes, and only enabled buttons are clicked, every
\* handler starts with what it relies on and runs to completion: Copy and
\* Delete with a current item, Delete with other than exactly one item, Top
\* and Up with the current row below row 0, Down and Bottom with the current
\* row above the last row.
C35_HandlersRunOnlyWhenApplicable ==
    lastOp \in Handlers =>
        LET n == Len(pre.items)
            r == pre.cur
        IN  /\ outcome = "ok"
            /\ lastOp \in {"Copy", "Delete"} => (r >= 0 /\ r < n)
            /\ lastOp = "Delete" => n # 1
            /\ lastOp \in {"MoveTop", "MoveUp"} => r # 0
            /\ lastOp \in {"MoveDown", "MoveBottom"} => r # n - 1

\* Up was clicked with row 1 current, right after the user moved the
\* selection there from row 0, where Up was disabled.
C35_Witness ==
    /\ Completed("MoveUp")
    /\ pre.cur = 1
    /\ currentRow = 0
    /\ buttons.down
    /\ ~buttons.up

====
